---- MODULE Spec2Model ----
(***************************************************************************)
(* ReadRot: the narration hooks (usePuterTTS, useTTS) and the text         *)
(* chunker (chunkText), modelled from the TypeScript sources.              *)
(*                                                                         *)
(* A null ref (audioRef.current, intervalRef.current) is written 0; audio  *)
(* elements and speak() closures are numbered 1, 2, ... in call order.     *)
(***************************************************************************)
EXTENDS Integers, Sequences, FiniteSets, TLC

\* Bounds of the model.
MaxCalls == 2
MaxWords == 2
MaxTCalls == 2
MaxTWords == 3
MaxWordLen == 2
MaxSentences == 3
MaxPolicyWords == 3
MaxTokens == 5
MaxEntries == 3
MaxTime == 4
MaxChars == 3
MaxTicks == 3
MaxBooks == 2
MaxChunks == 3
MaxOps == 3
MaxReels == 2
MaxPending == 2
MaxGen == 3

VARIABLES
    \* ---- usePuterTTS: React state (usePuterTTS.ts:108-113)
    p_isReady, p_isPlaying, p_isPaused, p_isLoading, p_currentWordIndex, p_error,
    \* ---- usePuterTTS: refs (usePuterTTS.ts:115-117); wordsRef holds words.length
    p_audioRef, p_wordsRef, p_intervalRef,
    \* ---- speak() invocations: how many so far, which still await txt2speech,
    \*      and the words.length each closure captured
    p_calls, p_pending, p_words,
    \* ---- the audio elements, the media-element task queue, the live intervals
    p_audio, p_mediaQ, p_timers,
    \* ---- history: p_calls at the last explicit stop(); onComplete calls per speak()
    p_stoppedAt, p_completed,
    \* ---- useTTS: React state (useTTS.ts:42-48) and refs (useTTS.ts:51-54);
    \*      t_elapsed is Date.now() - startTimeRef.current
    t_isSupported, t_isPlaying, t_isPaused, t_currentWordIndex,
    t_wordsRef, t_wordTimerRef, t_elapsed,
    \* ---- speak() invocations (one utterance each), the words each closure
    \*      captured, the live intervals
    t_calls, t_words, t_timers,
    \* ---- window.speechSynthesis: the utterances waiting, the one being spoken,
    \*      its paused flag, the end/error events cancel() has queued, and how
    \*      many word boundaries the engine has reported for the spoken one
    s_queue, s_speaking, s_paused, s_events, s_spoken,
    \* ---- chunkText: the call's arguments, whether it has returned, what it
    \*      returned, and the sentences each returned chunk was made of
    c_text, c_opts, c_done, c_chunks, c_groups,
    \* ---- splitIntoSentences: the call's argument, whether it has returned,
    \*      what it returned
    ss_text, ss_done, ss_sentences,
    \* ---- useElevenLabsTTS word tracking: wordTimingsRef.current, the audio's
    \*      currentTime in ms, currentWordIndex, the currentWordIndex the running
    \*      updateCurrentWord closure captured, and the newIndex and currentTime of
    \*      its last run (-1: it has not run)
    e_timings, e_currentTime, e_currentWordIndex, e_closureIndex, e_newIndex,
    e_resolvedAt,
    \* ---- history: how often onWordChange was called with each index since the
    \*      audio started (counted up to 2)
    e_emitted,
    \* ---- extractWordTimings: its three arguments (times in half
    \*      milliseconds), whether it has returned, and the table it returned
    x_characters, x_startTimes, x_endTimes, x_done, x_wordTimings,
    \* ---- repeated calls of chunkText: the module's DEFAULT_OPTIONS object, one
    \*      (text, options) pair and the results of the calls made with it, and the
    \*      result of the latest call made with other arguments
    m_DEFAULT_OPTIONS, m_text, m_options, m_results, m_last,
    \* ---- the library: the books object store of IndexedDB, the store's books
    \*      and currentBook (0: null), ReelContainer's activeIndex, the calls of
    \*      updateProgress and updateBookSettings in flight, how many were made,
    \*      and Date.now()
    b_db, b_books, b_currentBook, b_activeIndex, b_ops, b_started, b_clock,
    \* ---- one boundary event: the words of the utterance (their lengths), the
    \*      event's charIndex, currentWordIndex, whether onboundary has run
    o_words, o_charIndex, o_index, o_fired,
    \* ---- history: the index frozen by the pause that the current run resumed
    \*      from (-1 when the run was not resumed)
    t_frozen,
    \* ---- ReelContainer: activeIndex; per Reel: whether its 300 ms auto-play
    \*      timeout is pending, its hook's isPlaying and isPaused, whether its
    \*      hook's estimation interval is live
    r_activeIndex, r_autoTimer, r_isPlaying, r_isPaused, r_wordTimer,
    \* ---- window.speechSynthesis as the reels share it: the reels whose
    \*      utterances wait, the reel whose utterance is spoken (-1: none), the
    \*      paused flag, the reels owed an end/error event by cancel()
    r_queue, r_speaking, r_paused, r_events,
    \* ---- history: per Reel, the isPlaying and isPaused its latest
    \*      handlePlayPause read and the hook function it called
    r_toggled,
    \* ---- audioCache (key -> response), the calls of generateSpeech awaiting
    \*      their fetch, how many calls were made, what each returned (0: not
    \*      yet, -1: it threw)
    k_cache, k_reqs, k_calls, k_returned,
    \* ---- history: the (voiceId, speed, text) for which a fetch has succeeded
    \*      with no clearTTSCache or removeTTSFromCache of it since
    k_live

puterVars == <<p_isReady, p_isPlaying, p_isPaused, p_isLoading, p_currentWordIndex,
               p_error, p_audioRef, p_wordsRef, p_intervalRef, p_calls, p_pending,
               p_words, p_audio, p_mediaQ, p_timers, p_stoppedAt, p_completed>>

ttsVars == <<t_isSupported, t_isPlaying, t_isPaused, t_currentWordIndex, t_wordsRef,
             t_wordTimerRef, t_elapsed, t_calls, t_words, t_timers, s_queue,
             s_speaking, s_paused, s_events, s_spoken, t_frozen>>

chunkVars == <<c_text, c_opts, c_done, c_chunks, c_groups>>

splitVars == <<ss_text, ss_done, ss_sentences>>

elevenVars == <<e_timings, e_currentTime, e_currentWordIndex, e_closureIndex,
                e_newIndex, e_resolvedAt, e_emitted>>

extractVars == <<x_characters, x_startTimes, x_endTimes, x_done, x_wordTimings>>

moduleVars == <<m_DEFAULT_OPTIONS, m_text, m_options, m_results, m_last>>

bookVars == <<b_db, b_books, b_currentBook, b_activeIndex, b_ops, b_started, b_clock>>

boundaryVars == <<o_words, o_charIndex, o_index, o_fired>>

reelVars == <<r_activeIndex, r_autoTimer, r_isPlaying, r_isPaused, r_wordTimer,
              r_queue, r_speaking, r_paused, r_events, r_toggled>>

cacheVars == <<k_cache, k_reqs, k_calls, k_returned, k_live>>

vars == <<puterVars, ttsVars, chunkVars, splitVars, elevenVars, extractVars,
          moduleVars, bookVars, boundaryVars, reelVars, cacheVars>>

\* What an action of one component leaves alone: the other components
notPuter == <<ttsVars, chunkVars, splitVars, elevenVars, extractVars,
             moduleVars, bookVars,
             boundaryVars,
             reelVars, cacheVars>>
notTTS == <<puterVars, chunkVars, splitVars, elevenVars, extractVars,
             moduleVars, bookVars,
             boundaryVars,
             reelVars, cacheVars>>
notChunk == <<puterVars, ttsVars, splitVars, elevenVars, extractVars,
             moduleVars, bookVars,
             boundaryVars,
             reelVars, cacheVars>>
notSplit == <<puterVars, ttsVars, chunkVars, elevenVars, extractVars,
             moduleVars, bookVars,
             boundaryVars,
             reelVars, cacheVars>>
notEleven == <<puterVars, ttsVars, chunkVars, splitVars, extractVars,
             moduleVars, bookVars,
             boundaryVars,
             reelVars, cacheVars>>
notModule == <<puterVars, ttsVars, chunkVars, splitVars, elevenVars, extractVars, bookVars,
             boundaryVars,
             reelVars, cacheVars>>
notBook == <<puterVars, ttsVars, chunkVars, splitVars, elevenVars, extractVars,
            moduleVars,
             boundaryVars,
             reelVars, cacheVars>>
notBoundary == <<puterVars, ttsVars, chunkVars, splitVars, elevenVars, extractVars,
                moduleVars, bookVars,
             reelVars, cacheVars>>
notExtract == <<puterVars, ttsVars, chunkVars, splitVars, elevenVars, moduleVars, bookVars,
             boundaryVars,
             reelVars, cacheVars>>
notReel == <<puterVars, ttsVars, chunkVars, splitVars, elevenVars, extractVars,
            moduleVars, bookVars, boundaryVars, cacheVars>>
notCache == <<puterVars, ttsVars, chunkVars, splitVars, elevenVars, extractVars,
             moduleVars, bookVars, boundaryVars, reelVars>>

PCalls == 1..MaxCalls

-----------------------------------------------------------------------------
(* usePuterTTS                                                             *)

\* An HTMLAudioElement as the hook sees it: not yet returned ("new"), paused,
\* playing, ended or failed; whether loadedmetadata has fired since the
\* handlers were attached; whether the promise of speak()'s audio.play() is
\* still pending.
NewAudio == [status |-> "new", meta |-> FALSE, playP |-> FALSE]

PuterInit ==
    /\ p_isReady = FALSE
    /\ p_isPlaying = FALSE
    /\ p_isPaused = FALSE
    /\ p_isLoading = FALSE
    /\ p_currentWordIndex = -1
    /\ p_error = "null"
    /\ p_audioRef = 0
    /\ p_wordsRef = 0
    /\ p_intervalRef = 0
    /\ p_calls = 0
    /\ p_pending = {}
    /\ p_words = [c \in PCalls |-> 0]
    /\ p_audio = [c \in PCalls |-> NewAudio]
    /\ p_mediaQ = <<>>
    /\ p_timers = {}
    /\ p_stoppedAt = 0
    /\ p_completed = [c \in PCalls |-> 0]

\* clearWordTimer: clearInterval(intervalRef.current); intervalRef.current = null
ClearWordTimer(timers, ref) == {t \in timers : t.id # ref}

\* setInterval: the id of the new interval
FreshTimer(timers) ==
    CHOOSE i \in 1..(Cardinality(timers) + 1) : \A t \in timers : t.id # i

\* HTMLMediaElement.pause(): a playing element becomes paused and a task that
\* fires 'pause' is queued; on an element that is not playing nothing happens.
AudioPause(audio, a) ==
    IF audio[a].status = "playing" THEN [audio EXCEPT ![a].status = "paused"] ELSE audio

QueuePause(q, audio, a) ==
    IF audio[a].status = "playing" THEN Append(q, <<a, "pause">>) ELSE q

\* HTMLMediaElement.play(): a paused or ended element starts playing and a
\* task that fires 'play' is queued.
AudioPlay(audio, a) ==
    IF audio[a].status \in {"paused", "ended"}
    THEN [audio EXCEPT ![a].status = "playing"] ELSE audio

QueuePlay(q, audio, a) ==
    IF audio[a].status \in {"paused", "ended"} THEN Append(q, <<a, "play">>) ELSE q

\* stop(): the audio element of audioRef after pause() and currentTime = 0
\* (seeking to 0 also ends the 'ended' condition)
StopAudio(audio, ref) ==
    IF ref = 0 THEN audio
    ELSE IF audio[ref].status = "ended" THEN [audio EXCEPT ![ref].status = "paused"]
    ELSE AudioPause(audio, ref)

StopQueue(q, audio, ref) == IF ref = 0 THEN q ELSE QueuePause(q, audio, ref)

\* Load Puter.js on mount
PLoadScript ==
    /\ ~p_isReady
    /\ p_isReady' = TRUE
    /\ UNCHANGED <<p_isPlaying, p_isPaused, p_isLoading, p_currentWordIndex, p_error,
                   p_audioRef, p_wordsRef, p_intervalRef, p_calls, p_pending, p_words,
                   p_audio, p_mediaQ, p_timers, p_stoppedAt, p_completed>>
    /\ UNCHANGED notPuter

PStop ==
    /\ p_timers' = ClearWordTimer(p_timers, p_intervalRef)
    /\ p_intervalRef' = 0
    /\ p_audio' = StopAudio(p_audio, p_audioRef)
    /\ p_mediaQ' = StopQueue(p_mediaQ, p_audio, p_audioRef)
    /\ p_audioRef' = 0
    /\ p_isPlaying' = FALSE
    /\ p_isPaused' = FALSE
    /\ p_currentWordIndex' = -1
    /\ p_stoppedAt' = p_calls
    /\ UNCHANGED <<p_isReady, p_isLoading, p_error, p_wordsRef, p_calls, p_pending,
                   p_words, p_completed>>
    /\ UNCHANGED notPuter

\* speak(text, words), up to its await of txt2speech; n = words.length
PSpeak(n) ==
    /\ IF ~p_isReady
       THEN /\ p_error' = "TTS not ready yet"
            /\ UNCHANGED <<p_isReady, p_isPlaying, p_isPaused, p_isLoading,
                           p_currentWordIndex, p_audioRef, p_wordsRef, p_intervalRef,
                           p_calls, p_pending, p_words, p_audio, p_mediaQ, p_timers,
                           p_stoppedAt, p_completed>>
       ELSE /\ p_calls < MaxCalls
            \* stop()
            /\ p_timers' = ClearWordTimer(p_timers, p_intervalRef)
            /\ p_intervalRef' = 0
            /\ p_audio' = StopAudio(p_audio, p_audioRef)
            /\ p_mediaQ' = StopQueue(p_mediaQ, p_audio, p_audioRef)
            /\ p_audioRef' = 0
            /\ p_isPlaying' = FALSE
            /\ p_isPaused' = FALSE
            /\ p_currentWordIndex' = -1
            \* setIsLoading(true); setError(null); wordsRef.current = words
            /\ p_isLoading' = TRUE
            /\ p_error' = "null"
            /\ p_wordsRef' = n
            /\ p_calls' = p_calls + 1
            /\ p_pending' = p_pending \cup {p_calls + 1}
            /\ p_words' = [p_words EXCEPT ![p_calls + 1] = n]
            /\ UNCHANGED <<p_isReady, p_stoppedAt, p_completed>>
    /\ UNCHANGED notPuter

\* txt2speech resolves for call c: audioRef.current = audio, the handlers are
\* attached, audio.play() is called and starts the element.
PTxt2SpeechResolve(c) ==
    /\ c \in p_pending
    /\ p_pending' = p_pending \ {c}
    /\ p_audioRef' = c
    /\ p_audio' = [p_audio EXCEPT ![c] = [status |-> "playing", meta |-> FALSE,
                                          playP |-> TRUE]]
    /\ p_mediaQ' = Append(p_mediaQ, <<c, "play">>)
    /\ UNCHANGED <<p_isReady, p_isPlaying, p_isPaused, p_isLoading, p_currentWordIndex,
                   p_error, p_wordsRef, p_intervalRef, p_calls, p_words, p_timers,
                   p_stoppedAt, p_completed>>
    /\ UNCHANGED notPuter

\* txt2speech resolves for call c but the browser refuses audio.play()
\* (NotAllowedError): the element stays paused and the catch block runs.
PPlayRefused(c) ==
    /\ c \in p_pending
    /\ p_pending' = p_pending \ {c}
    /\ p_audioRef' = c
    /\ p_audio' = [p_audio EXCEPT ![c] = [status |-> "paused", meta |-> FALSE,
                                          playP |-> FALSE]]
    /\ p_error' = "play() failed"
    /\ p_isLoading' = FALSE
    /\ p_isPlaying' = FALSE
    /\ UNCHANGED <<p_isReady, p_isPaused, p_currentWordIndex, p_wordsRef, p_intervalRef,
                   p_calls, p_words, p_mediaQ, p_timers, p_stoppedAt, p_completed>>
    /\ UNCHANGED notPuter

\* txt2speech rejects for call c: the catch block
PTxt2SpeechReject(c) ==
    /\ c \in p_pending
    /\ p_pending' = p_pending \ {c}
    /\ p_error' = "TTS failed"
    /\ p_isLoading' = FALSE
    /\ p_isPlaying' = FALSE
    /\ UNCHANGED <<p_isReady, p_isPaused, p_currentWordIndex, p_audioRef, p_wordsRef,
                   p_intervalRef, p_calls, p_words, p_audio, p_mediaQ, p_timers,
                   p_stoppedAt, p_completed>>
    /\ UNCHANGED notPuter

\* audio.onplay
POnPlay(a) ==
    /\ p_isPlaying' = TRUE
    /\ p_isPaused' = FALSE
    /\ p_isLoading' = FALSE
    /\ UNCHANGED <<p_currentWordIndex, p_error, p_intervalRef, p_timers, p_audio>>

\* audio.onpause; the task that fires 'pause' then rejects a pending play()
\* promise (AbortError), which runs speak()'s catch block.
POnPause(a) ==
    /\ IF p_audio[a].status # "ended"
       THEN /\ p_isPaused' = TRUE
            /\ p_timers' = ClearWordTimer(p_timers, p_intervalRef)
            /\ p_intervalRef' = 0
       ELSE UNCHANGED <<p_isPaused, p_timers, p_intervalRef>>
    /\ IF p_audio[a].playP
       THEN /\ p_error' = "play() failed"
            /\ p_isLoading' = FALSE
            /\ p_isPlaying' = FALSE
            /\ p_audio' = [p_audio EXCEPT ![a].playP = FALSE]
       ELSE UNCHANGED <<p_error, p_isLoading, p_isPlaying, p_audio>>
    /\ UNCHANGED p_currentWordIndex

\* The next task of the media-element task queue runs its handler.
PDispatch ==
    /\ p_mediaQ # <<>>
    /\ p_mediaQ' = Tail(p_mediaQ)
    /\ LET a == Head(p_mediaQ)[1]
           ev == Head(p_mediaQ)[2]
       IN  IF ev = "play" THEN POnPlay(a) ELSE POnPause(a)
    /\ UNCHANGED <<p_isReady, p_audioRef, p_wordsRef, p_calls, p_pending, p_words,
                   p_stoppedAt, p_completed>>
    /\ UNCHANGED notPuter

Queued(a) == \E i \in 1..Len(p_mediaQ) : p_mediaQ[i][1] = a

\* Playback of a has started: the promise of audio.play() is fulfilled
\* (nothing follows the await in speak()).
PPlayFulfilled(a) ==
    /\ p_audio[a].status = "playing"
    /\ p_audio[a].playP
    /\ p_audio' = [p_audio EXCEPT ![a].playP = FALSE]
    /\ UNCHANGED <<p_isReady, p_isPlaying, p_isPaused, p_isLoading, p_currentWordIndex,
                   p_error, p_audioRef, p_wordsRef, p_intervalRef, p_calls, p_pending,
                   p_words, p_mediaQ, p_timers, p_stoppedAt, p_completed>>
    /\ UNCHANGED notPuter

\* audio.onloadedmetadata -> setupWordTimer
POnLoadedMetadata(a) ==
    /\ p_audio[a].status \in {"playing", "paused", "ended"}
    /\ ~p_audio[a].meta
    /\ p_audio' = [p_audio EXCEPT ![a].meta = TRUE]
    /\ p_currentWordIndex' = 0
    /\ LET id == FreshTimer(p_timers)
       IN  /\ p_timers' = p_timers \cup {[id |-> id, call |-> a, wordIdx |-> 0]}
           /\ p_intervalRef' = id
    /\ UNCHANGED <<p_isReady, p_isPlaying, p_isPaused, p_isLoading, p_error, p_audioRef,
                   p_wordsRef, p_calls, p_pending, p_words, p_mediaQ, p_stoppedAt,
                   p_completed>>
    /\ UNCHANGED notPuter

\* Playback of a reaches the end: 'pause' fires with audio.ended (onpause does
\* nothing), then 'ended' fires: audio.onended
POnEnded(a) ==
    /\ p_audio[a].status = "playing"
    /\ ~p_audio[a].playP
    /\ ~Queued(a)
    /\ p_audio' = [p_audio EXCEPT ![a].status = "ended"]
    /\ p_timers' = ClearWordTimer(p_timers, p_intervalRef)
    /\ p_intervalRef' = 0
    /\ p_isPlaying' = FALSE
    /\ p_isPaused' = FALSE
    /\ p_currentWordIndex' = -1
    /\ p_completed' = [p_completed EXCEPT ![a] = IF @ < 2 THEN @ + 1 ELSE @]
    /\ UNCHANGED <<p_isReady, p_isLoading, p_error, p_audioRef, p_wordsRef, p_calls,
                   p_pending, p_words, p_mediaQ, p_stoppedAt>>
    /\ UNCHANGED notPuter

\* The playing element a fails: audio.onerror, and a still pending play()
\* promise is rejected, which runs speak()'s catch block.
POnError(a) ==
    /\ p_audio[a].status = "playing"
    /\ ~Queued(a)
    /\ p_audio' = [p_audio EXCEPT ![a] = [status |-> "failed", meta |-> @.meta,
                                          playP |-> FALSE]]
    /\ p_error' = IF p_audio[a].playP THEN "play() failed" ELSE "Audio playback failed"
    /\ p_isPlaying' = FALSE
    /\ p_isLoading' = FALSE
    /\ p_timers' = ClearWordTimer(p_timers, p_intervalRef)
    /\ p_intervalRef' = 0
    /\ UNCHANGED <<p_isReady, p_isPaused, p_currentWordIndex, p_audioRef, p_wordsRef,
                   p_calls, p_pending, p_words, p_mediaQ, p_stoppedAt, p_completed>>
    /\ UNCHANGED notPuter

PPause ==
    /\ IF p_audioRef # 0 /\ p_isPlaying /\ ~p_isPaused
       THEN /\ p_audio' = AudioPause(p_audio, p_audioRef)
            /\ p_mediaQ' = QueuePause(p_mediaQ, p_audio, p_audioRef)
       ELSE UNCHANGED <<p_audio, p_mediaQ>>
    /\ UNCHANGED <<p_isReady, p_isPlaying, p_isPaused, p_isLoading, p_currentWordIndex,
                   p_error, p_audioRef, p_wordsRef, p_intervalRef, p_calls, p_pending,
                   p_words, p_timers, p_stoppedAt, p_completed>>
    /\ UNCHANGED notPuter

\* resume(): the new interval counts on from currentWordIndex and compares
\* with wordsRef.current.length at each tick (call = 0)
PResume ==
    /\ IF p_audioRef # 0 /\ p_isPaused
       THEN /\ p_audio' = AudioPlay(p_audio, p_audioRef)
            /\ p_mediaQ' = QueuePlay(p_mediaQ, p_audio, p_audioRef)
            /\ p_isPaused' = FALSE
            /\ LET id == FreshTimer(p_timers)
               IN  /\ p_timers' = p_timers \cup
                          {[id |-> id, call |-> 0, wordIdx |-> p_currentWordIndex]}
                   /\ p_intervalRef' = id
       ELSE UNCHANGED <<p_audio, p_mediaQ, p_isPaused, p_timers, p_intervalRef>>
    /\ UNCHANGED <<p_isReady, p_isPlaying, p_isLoading, p_currentWordIndex, p_error,
                   p_audioRef, p_wordsRef, p_calls, p_pending, p_words, p_stoppedAt,
                   p_completed>>
    /\ UNCHANGED notPuter

\* One firing of the interval t (setupWordTimer's or resume's callback). A
\* counter past every words.length is kept at MaxWords: it behaves the same.
PTick(t) ==
    /\ t \in p_timers
    /\ LET lim == IF t.call = 0 THEN p_wordsRef ELSE p_words[t.call]
           k == t.wordIdx + 1
           t2 == [t EXCEPT !.wordIdx = IF k > MaxWords THEN MaxWords ELSE k]
           ticked == (p_timers \ {t}) \cup {t2}
       IN  IF k < lim
           THEN /\ p_currentWordIndex' = k
                /\ p_timers' = ticked
                /\ UNCHANGED p_intervalRef
           ELSE /\ p_timers' = ClearWordTimer(ticked, p_intervalRef)
                /\ p_intervalRef' = 0
                /\ UNCHANGED p_currentWordIndex
    /\ UNCHANGED <<p_isReady, p_isPlaying, p_isPaused, p_isLoading, p_error, p_audioRef,
                   p_wordsRef, p_calls, p_pending, p_words, p_audio, p_mediaQ,
                   p_stoppedAt, p_completed>>
    /\ UNCHANGED notPuter

PuterNext ==
    \/ PLoadScript
    \/ PStop
    \/ \E n \in 1..MaxWords : PSpeak(n)
    \/ \E c \in PCalls : PTxt2SpeechResolve(c)
    \/ \E c \in PCalls : PPlayRefused(c)
    \/ \E c \in PCalls : PTxt2SpeechReject(c)
    \/ PDispatch
    \/ \E a \in PCalls : PPlayFulfilled(a)
    \/ \E a \in PCalls : POnLoadedMetadata(a)
    \/ \E a \in PCalls : POnEnded(a)
    \/ \E a \in PCalls : POnError(a)
    \/ PPause
    \/ PResume
    \/ \E t \in p_timers : PTick(t)

-----------------------------------------------------------------------------
(* useTTS (Web Speech API)                                                 *)

TCalls == 1..MaxTCalls

\* A words array, each word given by its length
RECURSIVE WordLists(_)
WordLists(n) ==
    IF n = 0 THEN {<<>>}
    ELSE LET shorter == WordLists(n - 1)
         IN  shorter \cup {Append(w, l) : w \in {x \in shorter : Len(x) = n - 1},
                                          l \in 1..MaxWordLen}

TWordLists == WordLists(MaxTWords) \ {<<>>}

\* rate is options.rate || 1.0; wordsPerSecond = (150 / 60) * rate;
\* msPerWord = 1000 / wordsPerSecond
MsPerWord == (1000 * 60) \div 150

\* The clock moves in steps of half a word; Date.now() - startTimeRef.current
\* is kept up to TimeCap, past which every interval has run out.
TimeStep == MsPerWord \div 2
TimeCap == MsPerWord * MaxTWords

TTSInit ==
    /\ t_isSupported = FALSE
    /\ t_isPlaying = FALSE
    /\ t_isPaused = FALSE
    /\ t_currentWordIndex = -1
    /\ t_wordsRef = <<>>
    /\ t_wordTimerRef = 0
    /\ t_elapsed = 0
    /\ t_calls = 0
    /\ t_words = [c \in TCalls |-> <<>>]
    /\ t_timers = {}
    /\ s_queue = <<>>
    /\ s_speaking = 0
    /\ s_paused = FALSE
    /\ s_events = <<>>
    /\ s_spoken = 0
    /\ t_frozen = -1

\* speechSynthesis.cancel(): the utterance being spoken and those waiting are
\* dropped; each gets an end/error event, delivered later.
CancelEvents ==
    s_events \o (IF s_speaking = 0 THEN <<>> ELSE <<s_speaking>>) \o s_queue

\* if (wordTimerRef.current) clearInterval(wordTimerRef.current). The ref keeps
\* the id of the cleared interval; clearing it again does nothing, so the
\* model writes 0 for it.
ClearInterval(timers, ref) == {t \in timers : t.id # ref}

\* words.slice(i).length
SliceLen(n, i) ==
    IF i >= 0 THEN (IF i >= n THEN 0 ELSE n - i)
    ELSE (IF -i >= n THEN n ELSE -i)

\* Math.ceil in the place of Math.floor
ExpectedIndex_Ceil(elapsed) == (elapsed + MsPerWord - 1) \div MsPerWord

\* Math.floor(elapsed / msPerWord)
ExpectedIndex(elapsed) == elapsed \div MsPerWord

\* onboundary with charCount > event.charIndex as its test
RECURSIVE BoundaryIndex_Strict(_, _, _, _)
BoundaryIndex_Strict(words, charIndex, i, charCount) ==
    IF i > Len(words) THEN -1
    ELSE IF charCount > charIndex THEN i - 1
    ELSE BoundaryIndex_Strict(words, charIndex, i + 1, charCount + words[i] + 1)

\* onboundary: the first i with charCount >= charIndex, or -1 when the loop
\* ends without setCurrentWordIndex
RECURSIVE BoundaryIndex(_, _, _, _)
BoundaryIndex(words, charIndex, i, charCount) ==
    IF i > Len(words) THEN -1
    ELSE IF charCount >= charIndex THEN i - 1
    ELSE BoundaryIndex(words, charIndex, i + 1, charCount + words[i] + 1)

\* The offset at which word k (0-based) starts in the words joined by one
\* separator each
RECURSIVE WordOffset(_, _)
WordOffset(words, k) ==
    IF k = 0 THEN 0 ELSE WordOffset(words, k - 1) + words[k] + 1

\* The mount effect: 'speechSynthesis' in window
TMount ==
    /\ ~t_isSupported
    /\ t_isSupported' = TRUE
    /\ UNCHANGED <<t_isPlaying, t_isPaused, t_currentWordIndex, t_wordsRef,
                   t_wordTimerRef, t_elapsed, t_calls, t_words, t_timers, s_queue,
                   s_speaking, s_paused, s_events, s_spoken, t_frozen>>
    /\ UNCHANGED notTTS

\* speak(text, words)
TSpeak(words) ==
    /\ IF ~t_isSupported
       THEN UNCHANGED ttsVars
       ELSE /\ t_calls < MaxTCalls
            /\ s_events' = CancelEvents
            /\ s_speaking' = 0
            /\ s_spoken' = 0
            /\ t_timers' = ClearInterval(t_timers, t_wordTimerRef)
            /\ t_wordTimerRef' = 0
            /\ t_wordsRef' = words
            /\ t_calls' = t_calls + 1
            /\ t_words' = [t_words EXCEPT ![t_calls + 1] = words]
            /\ s_queue' = <<t_calls + 1>>
            /\ UNCHANGED <<t_isSupported, t_isPlaying, t_isPaused, t_currentWordIndex,
                           t_elapsed, s_paused, t_frozen>>
    /\ UNCHANGED notTTS

\* startWordEstimation(words, rate) with n = words.length
StartWordEstimation(n) ==
    /\ t_elapsed' = 0
    /\ t_currentWordIndex' = 0
    /\ LET cleared == ClearInterval(t_timers, t_wordTimerRef)
           id == CHOOSE i \in 1..(Cardinality(cleared) + 1) :
                     \A t \in cleared : t.id # i
       IN  /\ t_timers' = cleared \cup {[id |-> id, n |-> n, currentIndex |-> 0]}
           /\ t_wordTimerRef' = id

\* The engine starts the next utterance: utterance.onstart
TOnStart ==
    /\ s_speaking = 0 /\ s_queue # <<>> /\ ~s_paused /\ s_events = <<>>
    /\ s_speaking' = Head(s_queue)
    /\ s_queue' = Tail(s_queue)
    /\ s_spoken' = 0
    /\ t_isPlaying' = TRUE
    /\ t_isPaused' = FALSE
    /\ StartWordEstimation(Len(t_words[Head(s_queue)]))
    /\ t_frozen' = -1
    /\ UNCHANGED <<t_isSupported, t_wordsRef, t_calls, t_words, s_paused, s_events>>
    /\ UNCHANGED notTTS

\* utterance.onend and utterance.onerror (the same assignments)
OnEndOrError ==
    /\ t_isPlaying' = FALSE
    /\ t_isPaused' = FALSE
    /\ t_currentWordIndex' = -1
    /\ t_timers' = ClearInterval(t_timers, t_wordTimerRef)
    /\ t_wordTimerRef' = 0

\* The utterance being spoken ends, or its synthesis fails
TOnEnd ==
    /\ s_speaking # 0 /\ ~s_paused /\ s_events = <<>>
    /\ s_speaking' = 0
    /\ s_spoken' = 0
    /\ OnEndOrError
    /\ t_frozen' = -1
    /\ UNCHANGED <<t_isSupported, t_wordsRef, t_elapsed, t_calls, t_words, s_queue,
                   s_paused, s_events>>
    /\ UNCHANGED notTTS

\* The end/error event of a cancelled utterance is delivered
TOnCancelled ==
    /\ s_events # <<>>
    /\ s_events' = Tail(s_events)
    /\ OnEndOrError
    /\ UNCHANGED <<t_isSupported, t_wordsRef, t_elapsed, t_calls, t_words, s_queue,
                   s_speaking, s_paused, s_spoken, t_frozen>>
    /\ UNCHANGED notTTS

\* The engine reports the start of the next word: utterance.onboundary with
\* event.name = 'word' and event.charIndex the word's offset
TOnBoundary ==
    /\ s_speaking # 0 /\ ~s_paused /\ s_events = <<>>
    /\ s_spoken < Len(t_words[s_speaking])
    /\ s_spoken' = s_spoken + 1
    /\ LET words == t_words[s_speaking]
           i == BoundaryIndex(words, WordOffset(words, s_spoken), 1, 0)
       IN  t_currentWordIndex' = IF i >= 0 THEN i ELSE t_currentWordIndex
    /\ UNCHANGED <<t_isSupported, t_isPlaying, t_isPaused, t_wordsRef, t_wordTimerRef,
                   t_elapsed, t_calls, t_words, t_timers, s_queue, s_speaking,
                   s_paused, s_events, t_frozen>>
    /\ UNCHANGED notTTS

\* pause()
TPause ==
    /\ IF t_isSupported /\ t_isPlaying
       THEN /\ s_paused' = TRUE
            /\ t_isPaused' = TRUE
            /\ t_timers' = ClearInterval(t_timers, t_wordTimerRef)
            /\ t_wordTimerRef' = 0
            /\ UNCHANGED <<t_isSupported, t_isPlaying, t_currentWordIndex, t_wordsRef,
                           t_elapsed, t_calls, t_words, s_queue, s_speaking, s_events,
                           s_spoken, t_frozen>>
       ELSE UNCHANGED ttsVars
    /\ UNCHANGED notTTS

\* resume()
TResume ==
    /\ IF t_isSupported /\ t_isPaused
       THEN /\ s_paused' = FALSE
            /\ t_isPaused' = FALSE
            /\ StartWordEstimation(SliceLen(Len(t_wordsRef), t_currentWordIndex))
            /\ t_frozen' = t_currentWordIndex
            /\ UNCHANGED <<t_isSupported, t_isPlaying, t_wordsRef, t_calls, t_words,
                           s_queue, s_speaking, s_events, s_spoken>>
       ELSE UNCHANGED ttsVars
    /\ UNCHANGED notTTS

\* stop()
TStop ==
    /\ IF t_isSupported
       THEN /\ s_events' = CancelEvents
            /\ s_speaking' = 0
            /\ s_queue' = <<>>
            /\ s_spoken' = 0
            /\ t_isPlaying' = FALSE
            /\ t_isPaused' = FALSE
            /\ t_currentWordIndex' = -1
            /\ t_timers' = ClearInterval(t_timers, t_wordTimerRef)
            /\ t_wordTimerRef' = 0
            /\ t_frozen' = -1
            /\ UNCHANGED <<t_isSupported, t_wordsRef, t_elapsed, t_calls, t_words,
                           s_paused>>
       ELSE UNCHANGED ttsVars
    /\ UNCHANGED notTTS

\* Time passes (it is read only by the intervals)
TClock ==
    /\ t_timers # {}
    /\ t_elapsed < TimeCap
    /\ t_elapsed' = t_elapsed + TimeStep
    /\ UNCHANGED <<t_isSupported, t_isPlaying, t_isPaused, t_currentWordIndex,
                   t_wordsRef, t_wordTimerRef, t_calls, t_words, t_timers, s_queue,
                   s_speaking, s_paused, s_events, s_spoken, t_frozen>>
    /\ UNCHANGED notTTS

\* One firing of startWordEstimation's interval t
TTick(t) ==
    /\ t \in t_timers
    /\ LET expectedIndex == ExpectedIndex(t_elapsed)
           write == expectedIndex # t.currentIndex /\ expectedIndex < t.n
           t2 == IF write THEN [t EXCEPT !.currentIndex = expectedIndex] ELSE t
           ticked == (t_timers \ {t}) \cup {t2}
       IN  /\ t_currentWordIndex' = IF write THEN expectedIndex ELSE t_currentWordIndex
           /\ IF expectedIndex >= t.n - 1
              THEN /\ t_timers' = ClearInterval(ticked, t_wordTimerRef)
                   /\ t_wordTimerRef' = 0
              ELSE /\ t_timers' = ticked
                   /\ UNCHANGED t_wordTimerRef
    /\ UNCHANGED <<t_isSupported, t_isPlaying, t_isPaused, t_wordsRef, t_elapsed,
                   t_calls, t_words, s_queue, s_speaking, s_paused, s_events,
                   s_spoken, t_frozen>>
    /\ UNCHANGED notTTS

TTSNext ==
    \/ TMount
    \/ \E words \in TWordLists : TSpeak(words)
    \/ TOnStart
    \/ TOnEnd
    \/ TOnCancelled
    \/ TOnBoundary
    \/ TPause
    \/ TResume
    \/ TStop
    \/ TClock
    \/ \E t \in t_timers : TTick(t)

-----------------------------------------------------------------------------
(* The chunker (lib/chunker). A string is a sequence of one-character      *)
(* strings; the placeholder `__PROTECTED<index>__` is kept as one element.  *)

\* \s, [A-Z], \w and toLowerCase over the characters the model's texts use
IsSpace(c) == c \in {" ", "\t", "\n", "\r"}

UpperLetters == <<"A", "B", "C", "D", "E", "F", "G", "H", "I", "J", "K", "L", "M",
                  "N", "O", "P", "Q", "R", "S", "T", "U", "V", "W", "X", "Y", "Z">>

LowerLetters == <<"a", "b", "c", "d", "e", "f", "g", "h", "i", "j", "k", "l", "m",
                  "n", "o", "p", "q", "r", "s", "t", "u", "v", "w", "x", "y", "z">>

UpperSet == {UpperLetters[i] : i \in 1..Len(UpperLetters)}

LowerSet == {LowerLetters[i] : i \in 1..Len(LowerLetters)}

LowerOf ==
    [c \in UpperSet |->
        LowerLetters[CHOOSE i \in 1..Len(UpperLetters) : UpperLetters[i] = c]]

IsUpper(c) == c \in UpperSet

IsLower(c) == c \in LowerSet

ToLower(c) == IF c \in UpperSet THEN LowerOf[c] ELSE c

\* const abbreviations = ['Mr', 'Mrs', 'Ms', 'Dr', 'Prof', 'Sr', 'Jr', 'vs',
\*                        'etc', 'i.e', 'e.g']
abbreviations ==
    << <<"M", "r">>, <<"M", "r", "s">>, <<"M", "s">>, <<"D", "r">>,
       <<"P", "r", "o", "f">>, <<"S", "r">>, <<"J", "r">>, <<"v", "s">>,
       <<"e", "t", "c">>, <<"i", ".", "e">>, <<"e", ".", "g">> >>

\* `__PROTECTED${index}__` for the abbreviation at position k (index k - 1)
Placeholders ==
    << "__PROTECTED0__", "__PROTECTED1__", "__PROTECTED2__", "__PROTECTED3__",
       "__PROTECTED4__", "__PROTECTED5__", "__PROTECTED6__", "__PROTECTED7__",
       "__PROTECTED8__", "__PROTECTED9__", "__PROTECTED10__" >>

PlaceholderSet == {Placeholders[k] : k \in 1..Len(Placeholders)}

IsPlaceholder(c) == c \in PlaceholderSet

\* \w; a placeholder begins and ends with '_'
IsWordChar(c) == IsUpper(c) \/ IsLower(c) \/ c = "_" \/ IsPlaceholder(c)

\* String.prototype.trim
RECURSIVE TrimLeft(_)
TrimLeft(s) == IF s # <<>> /\ IsSpace(Head(s)) THEN TrimLeft(Tail(s)) ELSE s

RECURSIVE TrimRight(_)
TrimRight(s) ==
    IF s # <<>> /\ IsSpace(s[Len(s)]) THEN TrimRight(SubSeq(s, 1, Len(s) - 1)) ELSE s

Trim(s) == TrimRight(TrimLeft(s))

\* The end (exclusive) of the run of characters of `set` that starts at i
RECURSIVE RunEnd(_, _, _)
RunEnd(s, i, set) == IF i <= Len(s) /\ s[i] \in set THEN RunEnd(s, i + 1, set) ELSE i

\* .replace(/\r\n/g, '\n')
RECURSIVE ReplaceCRLF(_, _)
ReplaceCRLF(s, i) ==
    IF i > Len(s) THEN <<>>
    ELSE IF s[i] = "\r" /\ i < Len(s) /\ s[i + 1] = "\n"
         THEN <<"\n">> \o ReplaceCRLF(s, i + 2)
         ELSE <<s[i]>> \o ReplaceCRLF(s, i + 1)

\* .replace(/\n{3,}/g, '\n\n')
RECURSIVE CollapseNewlines(_, _)
CollapseNewlines(s, i) ==
    IF i > Len(s) THEN <<>>
    ELSE IF s[i] = "\n"
         THEN LET e == RunEnd(s, i, {"\n"})
              IN  (IF e - i >= 3 THEN <<"\n", "\n">> ELSE SubSeq(s, i, e - 1))
                      \o CollapseNewlines(s, e)
         ELSE <<s[i]>> \o CollapseNewlines(s, i + 1)

\* .replace(/[ \t]+/g, ' ')
RECURSIVE CollapseBlanks(_, _)
CollapseBlanks(s, i) ==
    IF i > Len(s) THEN <<>>
    ELSE IF s[i] \in {" ", "\t"}
         THEN <<" ">> \o CollapseBlanks(s, RunEnd(s, i, {" ", "\t"}))
         ELSE <<s[i]>> \o CollapseBlanks(s, i + 1)

\* cleanedText
CleanText(text) ==
    Trim(CollapseBlanks(CollapseNewlines(ReplaceCRLF(text, 1), 1), 1))

\* cleanedText.split(/\n\n+/): the pieces between the runs of two or more
\* newlines; `from` is where the current piece starts
RECURSIVE SplitParagraphs(_, _, _)
SplitParagraphs(s, from, i) ==
    IF i > Len(s) THEN <<SubSeq(s, from, Len(s))>>
    ELSE IF s[i] = "\n" /\ RunEnd(s, i, {"\n"}) - i >= 2
         THEN LET e == RunEnd(s, i, {"\n"})
              IN  <<SubSeq(s, from, i - 1)>> \o SplitParagraphs(s, e, e)
         ELSE IF s[i] = "\n"
              THEN SplitParagraphs(s, from, RunEnd(s, i, {"\n"}))
              ELSE SplitParagraphs(s, from, i + 1)

\* One character of an abbreviation's pattern against one of the text, under
\* the flag i: '.' in 'i.e' and 'e.g' is the regular expression's wildcard
PatternChar(p, c) ==
    IF p = "." THEN c \notin {"\n", "\r"} ELSE ToLower(p) = ToLower(c)

\* \b before position i
WordBoundaryBefore(s, i) ==
    (i > 1 /\ IsWordChar(s[i - 1])) # (i <= Len(s) /\ IsWordChar(s[i]))

\* new RegExp(`\\b${abbr}\\.`, 'gi') matches at position i
AbbrAt(s, i, abbr) ==
    /\ i + Len(abbr) <= Len(s)
    /\ s[i + Len(abbr)] = "."
    /\ \A j \in 1..Len(abbr) : PatternChar(abbr[j], s[i + j - 1])
    /\ WordBoundaryBefore(s, i)

\* protectedText.replace(regex, `${abbr}__PROTECTED${index}__`) for the
\* abbreviation at position k
RECURSIVE Protect(_, _, _)
Protect(s, i, k) ==
    IF i > Len(s) THEN <<>>
    ELSE IF AbbrAt(s, i, abbreviations[k])
         THEN abbreviations[k] \o <<Placeholders[k]>>
                  \o Protect(s, i + Len(abbreviations[k]) + 1, k)
         ELSE <<s[i]>> \o Protect(s, i + 1, k)

\* abbreviations.forEach(...) from position k on
RECURSIVE ProtectAll(_, _)
ProtectAll(s, k) ==
    IF k > Len(abbreviations) THEN s ELSE ProtectAll(Protect(s, 1, k), k + 1)

\* new RegExp(`${abbr}__PROTECTED${index}__`, 'g') matches at position i
RestoreAt(s, i, k) ==
    LET abbr == abbreviations[k]
    IN  /\ i + Len(abbr) <= Len(s)
        /\ \A j \in 1..Len(abbr) :
              IF abbr[j] = "." THEN s[i + j - 1] \notin {"\n", "\r"}
              ELSE s[i + j - 1] = abbr[j]
        /\ s[i + Len(abbr)] = Placeholders[k]

\* restored.replace(..., `${abbr}.`) for the abbreviation at position k
RECURSIVE Restore(_, _, _)
Restore(s, i, k) ==
    IF i > Len(s) THEN <<>>
    ELSE IF RestoreAt(s, i, k)
         THEN abbreviations[k] \o <<".">> \o Restore(s, i + Len(abbreviations[k]) + 1, k)
         ELSE <<s[i]>> \o Restore(s, i + 1, k)

RECURSIVE RestoreAll(_, _)
RestoreAll(s, k) ==
    IF k > Len(abbreviations) THEN s ELSE RestoreAll(Restore(s, 1, k), k + 1)

\* The lookahead with [A-Za-z] in place of [A-Z]
SentenceLookahead_AnyLetter(s, i) ==
    LET e == RunEnd(s, i, {" ", "\t", "\n", "\r"})
    IN  \/ e > i /\ e <= Len(s) /\ (IsUpper(s[e]) \/ IsLower(s[e]))
        \/ e > Len(s)

\* The lookahead (?=\s+[A-Z]|\s*$) at position i
SentenceLookahead(s, i) ==
    LET e == RunEnd(s, i, {" ", "\t", "\n", "\r"})
    IN  \/ e > i /\ e <= Len(s) /\ IsUpper(s[e])
        \/ e > Len(s)

\* The while loop over sentenceRegex.exec: the sentences cut so far are in
\* `acc`, lastIndex is `last` (1-based here), the scan is at i
RECURSIVE ScanSentences(_, _, _, _)
ScanSentences(s, last, i, acc) ==
    IF i > Len(s)
    THEN LET remaining == Trim(SubSeq(s, last, Len(s)))
         IN  IF remaining # <<>> THEN Append(acc, remaining) ELSE acc
    ELSE IF s[i] \in {".", "!", "?"}
         THEN LET e == RunEnd(s, i, {".", "!", "?"})
                  sentence == Trim(SubSeq(s, last, e - 1))
              IN  IF SentenceLookahead(s, e)
                  THEN ScanSentences(s, e, e,
                           IF sentence # <<>> THEN Append(acc, sentence) ELSE acc)
                  ELSE ScanSentences(s, last, e, acc)
         ELSE ScanSentences(s, last, i + 1, acc)

splitIntoSentences(text) ==
    LET sentences == ScanSentences(ProtectAll(text, 1), 1, 1, <<>>)
    IN  [i \in 1..Len(sentences) |-> RestoreAll(sentences[i], 1)]

\* text.trim().split(/\s+/).filter(word => word.length > 0)
RECURSIVE SplitWords(_, _)
SplitWords(s, i) ==
    IF i > Len(s) THEN <<>>
    ELSE IF IsSpace(s[i]) THEN SplitWords(s, i + 1)
    ELSE LET e == CHOOSE j \in (i + 1)..(Len(s) + 1) :
                      /\ j = Len(s) + 1 \/ IsSpace(s[j])
                      /\ \A m \in i..(j - 1) : ~IsSpace(s[m])
         IN  <<SubSeq(s, i, e - 1)>> \o SplitWords(s, e)

splitIntoWords(text) == SplitWords(Trim(text), 1)

countWords(text) == Len(SplitWords(Trim(text), 1))

\* currentChunkSentences.join(' ')
RECURSIVE JoinSpace(_)
JoinSpace(parts) ==
    IF parts = <<>> THEN <<>>
    ELSE IF Len(parts) = 1 THEN parts[1]
    ELSE parts[1] \o <<" ">> \o JoinSpace(Tail(parts))

\* The loop state of chunkText: chunks, currentChunkSentences,
\* currentWordCount, currentStartPosition, chunkId; `groups` records the
\* sentences each chunk was made of.
ChunkLoopInit ==
    [chunks |-> <<>>, groups |-> <<>>, currentChunkSentences |-> <<>>,
     currentWordCount |-> 0, currentStartPosition |-> 0, chunkId |-> 0]

\* The push with the id left as it is
PushChunk_SameId(st) ==
    LET text == JoinSpace(st.currentChunkSentences)
    IN  [chunks |-> Append(st.chunks,
                       [id |-> st.chunkId, text |-> text, words |-> splitIntoWords(text),
                        startPosition |-> st.currentStartPosition,
                        endPosition |-> st.currentStartPosition + Len(text)]),
         groups |-> Append(st.groups, st.currentChunkSentences),
         currentChunkSentences |-> <<>>,
         currentWordCount |-> 0,
         currentStartPosition |-> st.currentStartPosition + Len(text) + 1,
         chunkId |-> st.chunkId]

\* The push with the next start set to this chunk's end, no separator counted
PushChunk_NoSeparator(st) ==
    LET text == JoinSpace(st.currentChunkSentences)
    IN  [chunks |-> Append(st.chunks,
                       [id |-> st.chunkId, text |-> text, words |-> splitIntoWords(text),
                        startPosition |-> st.currentStartPosition,
                        endPosition |-> st.currentStartPosition + Len(text)]),
         groups |-> Append(st.groups, st.currentChunkSentences),
         currentChunkSentences |-> <<>>,
         currentWordCount |-> 0,
         currentStartPosition |-> st.currentStartPosition + Len(text),
         chunkId |-> st.chunkId + 1]

\* chunks.push({...}); currentStartPosition += chunkText.length + 1;
\* currentChunkSentences = []; currentWordCount = 0
PushChunk(st) ==
    LET text == JoinSpace(st.currentChunkSentences)
    IN  [chunks |-> Append(st.chunks,
                       [id |-> st.chunkId, text |-> text, words |-> splitIntoWords(text),
                        startPosition |-> st.currentStartPosition,
                        endPosition |-> st.currentStartPosition + Len(text)]),
         groups |-> Append(st.groups, st.currentChunkSentences),
         currentChunkSentences |-> <<>>,
         currentWordCount |-> 0,
         currentStartPosition |-> st.currentStartPosition + Len(text) + 1,
         chunkId |-> st.chunkId + 1]

\* The body of the sentence loop without its first test: the sentence is
\* appended whatever the count it brings the chunk to.
AddSentence_NoCeiling(st, sentence, opts) ==
    LET st2 == [st EXCEPT !.currentChunkSentences = Append(@, sentence),
                          !.currentWordCount = @ + countWords(sentence)]
    IN  IF st2.currentWordCount >= opts.targetWords THEN PushChunk(st2) ELSE st2

\* The body of the sentence loop with its second test left out: the chunk is
\* closed after every sentence.
AddSentence_CloseEach(st, sentence, opts) ==
    PushChunk([st EXCEPT !.currentChunkSentences = Append(@, sentence),
                         !.currentWordCount = @ + countWords(sentence)])

\* The body of `for (const sentence of sentences)`
AddSentence(st, sentence, opts) ==
    LET sentenceWordCount == countWords(sentence)
        st1 == IF /\ st.currentWordCount + sentenceWordCount > opts.maxWords
                  /\ Len(st.currentChunkSentences) > 0
               THEN PushChunk(st) ELSE st
        st2 == [st1 EXCEPT !.currentChunkSentences = Append(@, sentence),
                           !.currentWordCount = @ + sentenceWordCount]
    IN  IF st2.currentWordCount >= opts.targetWords THEN PushChunk(st2) ELSE st2

RECURSIVE SentenceLoop(_, _, _, _)
SentenceLoop(st, sentences, i, opts) ==
    IF i > Len(sentences) THEN st
    ELSE SentenceLoop(AddSentence(st, sentences[i], opts), sentences, i + 1, opts)

\* The paragraph boundary with its test left out: nothing is closed there
ParagraphBoundary_Never(st, opts) == st

\* At paragraph boundary, consider finalizing if we have enough words
ParagraphBoundary(st, opts) ==
    IF opts.preserveParagraphs /\ st.currentWordCount >= opts.minWords
    THEN PushChunk(st) ELSE st

RECURSIVE ParagraphLoop(_, _, _, _)
ParagraphLoop(st, paragraphs, i, opts) ==
    IF i > Len(paragraphs) THEN st
    ELSE ParagraphLoop(
             ParagraphBoundary(
                 SentenceLoop(st, splitIntoSentences(Trim(paragraphs[i])), 1, opts),
                 opts),
             paragraphs, i + 1, opts)

\* chunkText without its last step: the sentences still buffered are dropped
Remaining_Dropped(st) == st

\* chunkText with its last step made without the test for buffered sentences
Remaining_Always(st) == PushChunk(st)

\* Don't forget any remaining text
Remaining(st) == IF Len(st.currentChunkSentences) > 0 THEN PushChunk(st) ELSE st

\* const paragraphs
Paragraphs(text, opts) ==
    IF opts.preserveParagraphs
    THEN SplitParagraphs(CleanText(text), 1, 1)
    ELSE <<CleanText(text)>>

ChunkRun(text, opts) ==
    Remaining(ParagraphLoop(ChunkLoopInit, Paragraphs(text, opts), 1, opts))

\* chunkText(text, options) with every option given; ChunkRun is the result
\* with the record of each chunk's sentences
chunkText(text, opts) == ChunkRun(text, opts).chunks

-----------------------------------------------------------------------------
(* The specifications: one per component, the others at rest               *)

\* const DEFAULT_OPTIONS
DEFAULT_OPTIONS ==
    [targetWords |-> 40, maxWords |-> 60, minWords |-> 20, preserveParagraphs |-> TRUE]

\* The texts handed to chunkText: up to MaxSentences pieces, each two
\* separated by a space or by a blank line written with tabs, CR LF and a
\* third line break.
Pieces ==
    { <<"H", "i", ".">>,
      <<"M", "r", ".", " ", "B", " ", "c", "?">>,
      <<"s", "o">> }

Separators ==
    { <<" ">>, <<"\t", "\r", "\n", "\r", "\n", "\r", "\n", " ">> }

RECURSIVE TextsOf(_)
TextsOf(n) ==
    IF n = 0 THEN {<<>>}
    ELSE IF n = 1 THEN Pieces
    ELSE {t \o sep \o piece : t \in TextsOf(n - 1), sep \in Separators, piece \in Pieces}

Texts == UNION {TextsOf(n) : n \in 0..MaxSentences} \cup Separators

\* The options handed to chunkText, every field given
Policies ==
    [targetWords : 0..MaxPolicyWords, maxWords : 0..MaxPolicyWords,
     minWords : 0..MaxPolicyWords, preserveParagraphs : BOOLEAN]

\* No call of chunkText made
ChunkIdle ==
    /\ c_text = <<>>
    /\ c_opts = DEFAULT_OPTIONS
    /\ c_done = FALSE
    /\ c_chunks = <<>>
    /\ c_groups = <<>>

\* A call of chunkText about to run on some text under some policy
ChunkInit ==
    /\ c_text \in Texts
    /\ c_opts \in Policies
    /\ c_done = FALSE
    /\ c_chunks = <<>>
    /\ c_groups = <<>>

\* chunkText(text, options) runs to its return
ChunkText ==
    /\ ~c_done
    /\ c_done' = TRUE
    /\ LET run == ChunkRun(c_text, c_opts)
       IN  /\ c_chunks' = run.chunks
           /\ c_groups' = run.groups
    /\ UNCHANGED <<c_text, c_opts>>
    /\ UNCHANGED notChunk

ChunkNext == ChunkText

\* The texts handed to splitIntoSentences: up to MaxTokens tokens (an
\* abbreviation, its lower-case variant, a word that resembles 'i.e',
\* punctuation, a space, a capital, an underscore), and the text of the
\* specification's example.
SplitTokens ==
    { <<"M", "r">>, <<"m", "r">>, <<"i", "c", "e">>, <<".">>, <<"!">>, <<" ">>,
      <<"B">>, <<"_">> }

RECURSIVE TokenTexts(_)
TokenTexts(n) ==
    IF n = 0 THEN {<<>>}
    ELSE {t \o tok : t \in TokenTexts(n - 1), tok \in SplitTokens}

\* "Mr. Smith ran. He was fast."
ExampleText ==
    <<"M", "r", ".", " ", "S", "m", "i", "t", "h", " ", "r", "a", "n", ".", " ",
      "H", "e", " ", "w", "a", "s", " ", "f", "a", "s", "t", ".">>

SplitTexts == UNION {TokenTexts(n) : n \in 0..MaxTokens} \cup {ExampleText}

\* No call of splitIntoSentences made
SplitIdle ==
    /\ ss_text = <<>>
    /\ ss_done = FALSE
    /\ ss_sentences = <<>>

\* A call of splitIntoSentences about to run on some text
SplitInit ==
    /\ ss_text \in SplitTexts
    /\ ss_done = FALSE
    /\ ss_sentences = <<>>

\* splitIntoSentences(text) runs to its return
SplitIntoSentences ==
    /\ ~ss_done
    /\ ss_done' = TRUE
    /\ ss_sentences' = splitIntoSentences(ss_text)
    /\ UNCHANGED ss_text
    /\ UNCHANGED notSplit

SplitNext == SplitIntoSentences

\* The alignment tables: up to MaxEntries entries with 0 <= start <= end, each
\* end at most the next start, all times up to MaxTime ms
RECURSIVE TimingTables(_)
TimingTables(n) ==
    IF n = 0 THEN {<<>>}
    ELSE {Append(t, [start |-> s, end |-> e]) :
              t \in TimingTables(n - 1), s \in 0..MaxTime, e \in 0..MaxTime}

WellFormed(t) ==
    /\ \A i \in 1..Len(t) : t[i].start <= t[i].end
    /\ \A i \in 1..(Len(t) - 1) : t[i].end <= t[i + 1].start

Timings == {t \in UNION {TimingTables(n) : n \in 0..MaxEntries} : WellFormed(t)}

\* The for loop of updateCurrentWord from entry i (1-based here) on: the
\* newIndex it leaves, -1 when it ends without a break
RECURSIVE FindIndex(_, _, _)
FindIndex(timings, currentTime, i) ==
    IF i > Len(timings) THEN -1
    ELSE IF currentTime >= timings[i].start /\ currentTime < timings[i].end
         THEN i - 1
    ELSE IF /\ currentTime >= timings[i].end
            /\ i - 1 < Len(timings) - 1
            /\ currentTime < timings[i + 1].start
         THEN i
    ELSE FindIndex(timings, currentTime, i + 1)

\* updateCurrentWord without the branch for the gap between two words
ResolveIndex_NoGap(timings, currentTime) ==
    LET inside == {i \in 1..Len(timings) :
                      currentTime >= timings[i].start /\ currentTime < timings[i].end}
    IN  IF inside # {} THEN (CHOOSE i \in inside : \A j \in inside : i <= j) - 1
        ELSE IF Len(timings) > 0 /\ currentTime >= timings[Len(timings)].start
             THEN Len(timings) - 1
        ELSE -1

\* newIndex of updateCurrentWord: the loop, then "if we're past all words,
\* show the last one"
ResolveIndex(timings, currentTime) ==
    LET found == FindIndex(timings, currentTime, 1)
    IN  IF /\ found = -1
           /\ Len(timings) > 0
           /\ currentTime >= timings[Len(timings)].start
        THEN Len(timings) - 1
        ELSE found

\* No narration started with useElevenLabsTTS
ElevenIdle ==
    /\ e_timings = <<>>
    /\ e_currentTime = 0
    /\ e_currentWordIndex = -1
    /\ e_closureIndex = -1
    /\ e_newIndex = -1
    /\ e_resolvedAt = -1
    /\ e_emitted = [i \in 0..(MaxEntries - 1) |-> 0]

\* speak() was called while an earlier narration was playing, has received
\* some table and started the audio: wordTimingsRef is set,
\* setCurrentWordIndex(0) has run, and audio.onplay has started the loop with
\* the updateCurrentWord of the render speak() was created in, which holds
\* isPlaying = true, isPaused = false and that render's currentWordIndex
\* (with isPlaying = false in that render the loop ends at its first frame)
ElevenInit ==
    /\ e_timings \in Timings
    /\ e_currentTime = 0
    /\ e_currentWordIndex = 0
    /\ e_closureIndex \in -1..(MaxEntries - 1)
    /\ e_newIndex = -1
    /\ e_resolvedAt = -1
    /\ e_emitted = [i \in 0..(MaxEntries - 1) |-> 0]

\* Playback goes on: audio.currentTime grows
EPlayback ==
    /\ e_currentTime < MaxTime
    /\ e_currentTime' \in (e_currentTime + 1)..MaxTime
    /\ UNCHANGED <<e_timings, e_currentWordIndex, e_closureIndex, e_newIndex,
                   e_resolvedAt, e_emitted>>
    /\ UNCHANGED notEleven

\* An animation frame runs updateCurrentWord while the audio plays
UpdateCurrentWord ==
    /\ e_currentWordIndex # -1
    /\ LET newIndex == ResolveIndex(e_timings, e_currentTime)
       IN  /\ e_newIndex' = newIndex
           /\ e_currentWordIndex' =
                  IF newIndex # e_closureIndex /\ newIndex >= 0
                  THEN newIndex ELSE e_currentWordIndex
           /\ e_emitted' =
                  IF newIndex # e_closureIndex /\ newIndex >= 0
                  THEN [e_emitted EXCEPT ![newIndex] = IF @ < 2 THEN @ + 1 ELSE @]
                  ELSE e_emitted
    /\ e_resolvedAt' = e_currentTime
    /\ UNCHANGED <<e_timings, e_currentTime, e_closureIndex>>
    /\ UNCHANGED notEleven

ElevenNext == EPlayback \/ UpdateCurrentWord

\* Math.round(seconds * 1000) for a time of t half milliseconds: halves round up
RoundMs(t) == (t + 1) \div 2

\* The test with the space alone
IsBoundaryChar_SpaceOnly(char) == char = " "

\* char === ' ' || char === '\n' || char === '\t'
IsBoundaryChar(char) == char \in {" ", "\n", "\t"}

\* The entry with the two times exchanged
WordTiming_Swapped(word, wordStart, wordEnd) ==
    [word |-> word, start |-> RoundMs(wordEnd), end |-> RoundMs(wordStart)]

\* { word, start: Math.round(wordStart * 1000), end: Math.round(wordEnd * 1000) }
WordTiming(word, wordStart, wordEnd) ==
    [word |-> word, start |-> RoundMs(wordStart), end |-> RoundMs(wordEnd)]

\* The locals of extractWordTimings before its loop
ExtractLoopInit == [wordTimings |-> <<>>, currentWord |-> <<>>, wordStart |-> 0, wordEnd |-> 0]

\* One iteration of the loop that forgets to empty currentWord after a push
ExtractStep_KeepWord(st, char, startTime, endTime) ==
    IF IsBoundaryChar(char)
    THEN IF Len(st.currentWord) > 0
         THEN [st EXCEPT !.wordTimings =
                  Append(@, WordTiming(st.currentWord, st.wordStart, st.wordEnd))]
         ELSE st
    ELSE [st EXCEPT !.wordStart = IF Len(st.currentWord) = 0 THEN startTime ELSE @,
                    !.currentWord = Append(@, char),
                    !.wordEnd = endTime]

\* One iteration of the loop of extractWordTimings
ExtractStep(st, char, startTime, endTime) ==
    IF IsBoundaryChar(char)
    THEN IF Len(st.currentWord) > 0
         THEN [st EXCEPT !.wordTimings =
                  Append(@, WordTiming(st.currentWord, st.wordStart, st.wordEnd)),
                         !.currentWord = <<>>]
         ELSE st
    ELSE [st EXCEPT !.wordStart = IF Len(st.currentWord) = 0 THEN startTime ELSE @,
                    !.currentWord = Append(@, char),
                    !.wordEnd = endTime]

\* The loop over characters[1..i]
RECURSIVE ExtractLoop(_, _, _, _)
ExtractLoop(characters, startTimes, endTimes, i) ==
    IF i = 0 THEN ExtractLoopInit
    ELSE ExtractStep(ExtractLoop(characters, startTimes, endTimes, i - 1),
                     characters[i], startTimes[i], endTimes[i])

\* extractWordTimings(characters, startTimes, endTimes)
extractWordTimings(characters, startTimes, endTimes) ==
    LET st == ExtractLoop(characters, startTimes, endTimes, Len(characters))
    IN  IF Len(st.currentWord) > 0
        THEN Append(st.wordTimings, WordTiming(st.currentWord, st.wordStart, st.wordEnd))
        ELSE st.wordTimings

\* The characters of an alignment
AlignmentChars == {"H", "i", " ", "\n", "\t"}

\* The character sequence of the example, with its times
ExampleCharacters == <<"H", "i", " ", "t", "h", "e", "r", "e">>
ExampleStartTimes == [i \in 1..8 |-> 3 * (i - 1)]
ExampleEndTimes == [i \in 1..8 |-> 3 * i]

RECURSIVE CharSeqs(_)
CharSeqs(n) ==
    IF n = 0 THEN {<<>>}
    ELSE {Append(c, ch) : c \in CharSeqs(n - 1), ch \in AlignmentChars}

\* Per-character times as the speech service reports them: each start at most
\* its end, each end at most the next start
Monotone(startTimes, endTimes) ==
    /\ \A i \in 1..Len(startTimes) : startTimes[i] <= endTimes[i]
    /\ \A i \in 1..(Len(startTimes) - 1) : endTimes[i] <= startTimes[i + 1]

\* No alignment being reduced
ExtractIdle ==
    /\ x_characters = <<>>
    /\ x_startTimes = <<>>
    /\ x_endTimes = <<>>
    /\ x_done = FALSE
    /\ x_wordTimings = <<>>

\* The speech service has answered with some alignment
ExtractInit ==
    /\ \/ \E n \in 0..MaxChars :
             /\ x_characters \in CharSeqs(n)
             /\ x_startTimes \in [1..n -> 0..MaxTicks]
             /\ x_endTimes \in [1..n -> 0..MaxTicks]
             /\ Monotone(x_startTimes, x_endTimes)
       \/ /\ x_characters = ExampleCharacters
          /\ x_startTimes = ExampleStartTimes
          /\ x_endTimes = ExampleEndTimes
    /\ x_done = FALSE
    /\ x_wordTimings = <<>>

\* The route handler reduces the alignment to a word table
ExtractWordTimings ==
    /\ ~x_done
    /\ x_wordTimings' = extractWordTimings(x_characters, x_startTimes, x_endTimes)
    /\ x_done' = TRUE
    /\ UNCHANGED <<x_characters, x_startTimes, x_endTimes>>
    /\ UNCHANGED notExtract

ExtractNext == ExtractWordTimings

\* { ...DEFAULT_OPTIONS, ...options }: a field of options, when given, wins
MergeOptions(defaults, options) ==
    [f \in DOMAIN defaults |-> IF f \in DOMAIN options THEN options[f] ELSE defaults[f]]

\* A chunkText that merged the options into DEFAULT_OPTIONS itself
ModuleAfterCall_Assign(defaults, options) == MergeOptions(defaults, options)

\* DEFAULT_OPTIONS after a call: the spread builds a fresh object, the
\* module's object is only read
ModuleAfterCall(defaults, options) == defaults

\* The options objects handed to chunkText: none, some or all of the fields of
\* two policies
PartialOptions ==
    {[f \in S |-> p[f]] :
        S \in {{}, {"targetWords"}, {"preserveParagraphs"},
               {"targetWords", "maxWords", "minWords"},
               {"targetWords", "maxWords", "minWords", "preserveParagraphs"}},
        p \in {[targetWords |-> 1, maxWords |-> 2, minWords |-> 1,
                preserveParagraphs |-> FALSE],
               [targetWords |-> 2, maxWords |-> MaxPolicyWords, minWords |-> 0,
                preserveParagraphs |-> TRUE]}}

\* The shorter texts
ShortTexts == UNION {TextsOf(n) : n \in 0..(MaxSentences - 1)}

\* The module loaded, no call made
ModuleIdle ==
    /\ m_DEFAULT_OPTIONS = DEFAULT_OPTIONS
    /\ m_text = <<>>
    /\ m_options = <<>>
    /\ m_results = <<>>
    /\ m_last = <<>>

\* The module loaded; some (text, options) pair is about to be used twice
ModuleInit ==
    /\ m_DEFAULT_OPTIONS = DEFAULT_OPTIONS
    /\ m_text \in ShortTexts
    /\ m_options \in PartialOptions
    /\ m_results = <<>>
    /\ m_last = <<>>

\* chunkText(m_text, m_options)
CallSame ==
    /\ Len(m_results) < 2
    /\ m_results' = Append(m_results,
                           chunkText(m_text, MergeOptions(m_DEFAULT_OPTIONS, m_options)))
    /\ m_DEFAULT_OPTIONS' = ModuleAfterCall(m_DEFAULT_OPTIONS, m_options)
    /\ UNCHANGED <<m_text, m_options, m_last>>
    /\ UNCHANGED notModule

\* chunkText with some other arguments
CallOther ==
    /\ \E text \in Pieces, options \in PartialOptions :
          /\ <<text, options>> # <<m_text, m_options>>
          /\ m_last' = chunkText(text, MergeOptions(m_DEFAULT_OPTIONS, options))
          /\ m_DEFAULT_OPTIONS' = ModuleAfterCall(m_DEFAULT_OPTIONS, options)
    /\ UNCHANGED <<m_text, m_options, m_results>>
    /\ UNCHANGED notModule

ModuleNext == CallSame \/ CallOther

\* The books of the library and the calls made on it
Books == 1..MaxBooks
Ops == 1..MaxOps

\* A Book as saved by addBook: book b has b + 1 chunks (at most MaxChunks)
ChunkCount(b) == IF b + 1 > MaxChunks THEN MaxChunks ELSE b + 1

SavedBook(b) ==
    [id |-> b, text |-> <<"text", b>>, chunks |-> [i \in 1..ChunkCount(b) |-> <<b, i - 1>>],
     lastChunkIndex |-> 0, lastReadAt |-> 0, settings |-> "default"]

\* No such book: undefined from db.get, a book filtered out of the store's
\* books, a null currentBook
NoBook ==
    [id |-> 0, text |-> <<>>, chunks |-> <<>>, lastChunkIndex |-> 0, lastReadAt |-> 0,
     settings |-> "default"]

\* No call in flight
NoOp == [kind |-> "none", book |-> 0, arg |-> 0, pc |-> "done", read |-> SavedBook(1)]

\* The library as loaded, book 1 open in the reader at its saved position
BookInit ==
    /\ b_db = [b \in Books |-> SavedBook(b)]
    /\ b_books = [b \in Books |-> SavedBook(b)]
    /\ b_currentBook = SavedBook(1)
    /\ b_activeIndex = 0
    /\ b_ops = [o \in Ops |-> NoOp]
    /\ b_started = 0
    /\ b_clock = 1

\* updateReadingProgress with its assignment to chunks added
WithProgress_Rechunk(book, chunkIndex, now) ==
    [book EXCEPT !.lastChunkIndex = chunkIndex, !.lastReadAt = now, !.chunks = <<>>]

\* book.lastChunkIndex = chunkIndex; book.lastReadAt = Date.now()
WithProgress(book, chunkIndex, now) ==
    [book EXCEPT !.lastChunkIndex = chunkIndex, !.lastReadAt = now]

\* handleScroll with newIndex = Math.round(scrollTop / reelHeight): the reel
\* becomes active and updateProgress(book.id, newIndex) is called, not awaited
HandleScroll(newIndex) ==
    /\ b_started < MaxOps
    /\ IF /\ newIndex # b_activeIndex
          /\ newIndex >= 0
          /\ newIndex < Len(b_currentBook.chunks)
       THEN /\ b_activeIndex' = newIndex
            /\ b_started' = b_started + 1
            /\ b_ops' = [b_ops EXCEPT ![b_started + 1] =
                             [kind |-> "progress", book |-> b_currentBook.id,
                              arg |-> newIndex, pc |-> "get", read |-> SavedBook(1)]]
       ELSE UNCHANGED <<b_activeIndex, b_started, b_ops>>
    /\ UNCHANGED <<b_db, b_books, b_currentBook, b_clock>>
    /\ UNCHANGED notBook

\* updateBookSettings(bookId, settings) is called
UpdateBookSettings(bookId, settings) ==
    /\ b_started < MaxOps
    /\ b_started' = b_started + 1
    /\ b_ops' = [b_ops EXCEPT ![b_started + 1] =
                     [kind |-> "settings", book |-> bookId, arg |-> settings,
                      pc |-> "get", read |-> SavedBook(1)]]
    /\ UNCHANGED <<b_db, b_books, b_currentBook, b_activeIndex, b_clock>>
    /\ UNCHANGED notBook

\* db.get('books', id) of updateReadingProgress or getBook completes for call
\* o; `if (book)`: without a book updateReadingProgress returns and
\* updateProgress goes on to its set(...), updateBookSettings does nothing more
DbGet(o) ==
    /\ b_ops[o].pc = "get"
    /\ b_ops' = IF b_db[b_ops[o].book] # NoBook
                THEN [b_ops EXCEPT ![o].read = b_db[b_ops[o].book], ![o].pc = "put"]
                ELSE IF b_ops[o].kind = "progress"
                     THEN [b_ops EXCEPT ![o].pc = "set"]
                     ELSE [b_ops EXCEPT ![o] = NoOp]
    /\ UNCHANGED <<b_db, b_books, b_currentBook, b_activeIndex, b_started, b_clock>>
    /\ UNCHANGED notBook

\* The record call o writes: the book it read with its progress, or with its
\* settings merged
Written(o) ==
    IF b_ops[o].kind = "progress"
    THEN WithProgress(b_ops[o].read, b_ops[o].arg, b_clock)
    ELSE [b_ops[o].read EXCEPT !.settings = b_ops[o].arg]

\* db.put('books', book) of updateReadingProgress or saveBook completes
DbPut(o) ==
    /\ b_ops[o].pc = "put"
    /\ b_db' = [b_db EXCEPT ![b_ops[o].book] = Written(o)]
    /\ b_ops' = [b_ops EXCEPT ![o].read = Written(o), ![o].pc = "set"]
    /\ b_clock' = b_clock + 1
    /\ UNCHANGED <<b_books, b_currentBook, b_activeIndex, b_started>>
    /\ UNCHANGED notBook

\* The book of the store after call o: deleteBook filters it out (and sets a
\* currentBook with its id to null), updateProgress changes two fields of the
\* store's own copy, updateBookSettings replaces it by the record saved
StoreBook(o, book) ==
    IF book.id # b_ops[o].book THEN book
    ELSE IF b_ops[o].kind = "delete" THEN NoBook
    ELSE IF b_ops[o].kind = "progress" THEN WithProgress(book, b_ops[o].arg, b_clock)
    ELSE b_ops[o].read

\* The set(...) that ends deleteBook, updateProgress or updateBookSettings; a
\* deleteBook that has completed stays on record as "deleted"
StoreSet(o) ==
    /\ b_ops[o].pc = "set"
    /\ b_books' = [b \in Books |-> StoreBook(o, b_books[b])]
    /\ b_currentBook' = StoreBook(o, b_currentBook)
    /\ b_ops' = IF b_ops[o].kind = "delete"
                THEN [b_ops EXCEPT ![o].pc = "deleted"]
                ELSE [b_ops EXCEPT ![o] = NoOp]
    /\ b_clock' = b_clock + 1
    /\ UNCHANGED <<b_db, b_activeIndex, b_started>>
    /\ UNCHANGED notBook

\* deleteBook(id) is called
DeleteBook(id) ==
    /\ b_started < MaxOps
    /\ b_started' = b_started + 1
    /\ b_ops' = [b_ops EXCEPT ![b_started + 1] =
                     [kind |-> "delete", book |-> id, arg |-> 0, pc |-> "delete",
                      read |-> SavedBook(1)]]
    /\ UNCHANGED <<b_db, b_books, b_currentBook, b_activeIndex, b_clock>>
    /\ UNCHANGED notBook

\* db.delete('books', id) of call o completes
DbDelete(o) ==
    /\ b_ops[o].pc = "delete"
    /\ b_db' = [b_db EXCEPT ![b_ops[o].book] = NoBook]
    /\ b_ops' = [b_ops EXCEPT ![o].pc = "set"]
    /\ UNCHANGED <<b_books, b_currentBook, b_activeIndex, b_started, b_clock>>
    /\ UNCHANGED notBook

BookNext ==
    \/ \E newIndex \in 0..MaxChunks : HandleScroll(newIndex)
    \/ \E bookId \in Books, settings \in {"large", "dark"} :
           UpdateBookSettings(bookId, settings)
    \/ \E o \in Ops : DbGet(o)
    \/ \E o \in Ops : DbPut(o)
    \/ \E o \in Ops : StoreSet(o)

\* The library with deleteBook among its calls
LibraryNext ==
    \/ BookNext
    \/ \E id \in Books : DeleteBook(id)
    \/ \E o \in Ops : DbDelete(o)

\* No boundary event under study
BoundaryIdle ==
    /\ o_words = <<>>
    /\ o_charIndex = 0
    /\ o_index = -1
    /\ o_fired = FALSE

\* An utterance of some words is being spoken, some index is shown, and the
\* engine is about to report a word boundary at some character offset
BoundaryInit ==
    /\ o_words \in TWordLists
    /\ o_charIndex \in 0..(MaxTWords * (MaxWordLen + 1))
    /\ o_index \in -1..(MaxTWords - 1)
    /\ o_index < Len(o_words)
    /\ o_fired = FALSE

-----------------------------------------------------------------------------
(* ReelContainer and its Reels (components/reel): each Reel owns a useTTS   *)
(* instance; window.speechSynthesis is shared by all of them.               *)

Reels == 0..(MaxReels - 1)

\* No activation of a reel's play/pause control yet
NoToggle == [isPlaying |-> FALSE, isPaused |-> FALSE, called |-> "none"]

\* The container just mounted with the hooks supported: reel 0 is active and
\* its auto-play effect has scheduled the 300 ms timer; the others ran stop()
ReelInit ==
    /\ r_activeIndex = 0
    /\ r_autoTimer = [r \in Reels |-> r = 0]
    /\ r_isPlaying = [r \in Reels |-> FALSE]
    /\ r_isPaused = [r \in Reels |-> FALSE]
    /\ r_wordTimer = [r \in Reels |-> FALSE]
    /\ r_queue = <<>>
    /\ r_speaking = -1
    /\ r_paused = FALSE
    /\ r_events = <<>>
    /\ r_toggled = [r \in Reels |-> NoToggle]

\* speechSynthesis.cancel(): the end/error events of the dropped utterances
ReelCancelEvents ==
    r_events \o (IF r_speaking = -1 THEN <<>> ELSE <<r_speaking>>) \o r_queue

\* useTTS.speak of reel r: cancel(), clearInterval, speechSynthesis.speak
ReelSpeak(r) ==
    /\ Len(ReelCancelEvents) <= MaxPending
    /\ r_events' = ReelCancelEvents
    /\ r_speaking' = -1
    /\ r_queue' = <<r>>
    /\ r_wordTimer' = [r_wordTimer EXCEPT ![r] = FALSE]
    /\ UNCHANGED <<r_isPlaying, r_isPaused, r_paused>>

\* useTTS.stop of reel r
ReelStop(r) ==
    /\ Len(ReelCancelEvents) <= MaxPending
    /\ r_events' = ReelCancelEvents
    /\ r_speaking' = -1
    /\ r_queue' = <<>>
    /\ r_isPlaying' = [r_isPlaying EXCEPT ![r] = FALSE]
    /\ r_isPaused' = [r_isPaused EXCEPT ![r] = FALSE]
    /\ r_wordTimer' = [r_wordTimer EXCEPT ![r] = FALSE]
    /\ UNCHANGED r_paused

\* useTTS.pause of reel r
ReelPause(r) ==
    IF r_isPlaying[r]
    THEN /\ r_paused' = TRUE
         /\ r_isPaused' = [r_isPaused EXCEPT ![r] = TRUE]
         /\ r_wordTimer' = [r_wordTimer EXCEPT ![r] = FALSE]
         /\ UNCHANGED <<r_isPlaying, r_queue, r_speaking, r_events>>
    ELSE UNCHANGED <<r_isPlaying, r_isPaused, r_wordTimer, r_queue, r_speaking,
                     r_paused, r_events>>

\* useTTS.resume of reel r
ReelResume(r) ==
    IF r_isPaused[r]
    THEN /\ r_paused' = FALSE
         /\ r_isPaused' = [r_isPaused EXCEPT ![r] = FALSE]
         /\ r_wordTimer' = [r_wordTimer EXCEPT ![r] = TRUE]
         /\ UNCHANGED <<r_isPlaying, r_queue, r_speaking, r_events>>
    ELSE UNCHANGED <<r_isPlaying, r_isPaused, r_wordTimer, r_queue, r_speaking,
                     r_paused, r_events>>

\* ReelContainer.handleScroll settles on another reel: setActiveIndex, then
\* the auto-play effects of the two reels whose isActive changed: the cleanup
\* clears the old reel's timeout and its effect calls stop(); the new reel's
\* effect sets its timeout
RScroll(newIndex) ==
    /\ newIndex # r_activeIndex
    /\ r_activeIndex' = newIndex
    /\ r_autoTimer' = [r \in Reels |-> r = newIndex]
    /\ ReelStop(r_activeIndex)
    /\ UNCHANGED r_toggled
    /\ UNCHANGED notReel

\* The 300 ms timeout of reel r fires: speak(chunk.text, chunk.words)
RAutoStart(r) ==
    /\ r_autoTimer[r]
    /\ r_autoTimer' = [r_autoTimer EXCEPT ![r] = FALSE]
    /\ ReelSpeak(r)
    /\ UNCHANGED r_activeIndex
    /\ UNCHANGED r_toggled
    /\ UNCHANGED notReel

\* The engine starts the next utterance: onstart in the hook that spoke it
ROnStart ==
    /\ r_speaking = -1 /\ r_queue # <<>> /\ ~r_paused /\ r_events = <<>>
    /\ r_speaking' = Head(r_queue)
    /\ r_queue' = Tail(r_queue)
    /\ r_isPlaying' = [r_isPlaying EXCEPT ![Head(r_queue)] = TRUE]
    /\ r_isPaused' = [r_isPaused EXCEPT ![Head(r_queue)] = FALSE]
    /\ r_wordTimer' = [r_wordTimer EXCEPT ![Head(r_queue)] = TRUE]
    /\ UNCHANGED <<r_activeIndex, r_autoTimer, r_paused, r_events>>
    /\ UNCHANGED r_toggled
    /\ UNCHANGED notReel

\* The utterance being spoken ends: onend in the hook that spoke it
ROnEnd ==
    /\ r_speaking # -1 /\ ~r_paused /\ r_events = <<>>
    /\ r_speaking' = -1
    /\ r_isPlaying' = [r_isPlaying EXCEPT ![r_speaking] = FALSE]
    /\ r_isPaused' = [r_isPaused EXCEPT ![r_speaking] = FALSE]
    /\ r_wordTimer' = [r_wordTimer EXCEPT ![r_speaking] = FALSE]
    /\ UNCHANGED <<r_activeIndex, r_autoTimer, r_queue, r_paused, r_events>>
    /\ UNCHANGED r_toggled
    /\ UNCHANGED notReel

\* The end/error event of a cancelled utterance reaches the hook that spoke it
ROnCancelled ==
    /\ r_events # <<>>
    /\ r_events' = Tail(r_events)
    /\ r_isPlaying' = [r_isPlaying EXCEPT ![Head(r_events)] = FALSE]
    /\ r_isPaused' = [r_isPaused EXCEPT ![Head(r_events)] = FALSE]
    /\ r_wordTimer' = [r_wordTimer EXCEPT ![Head(r_events)] = FALSE]
    /\ UNCHANGED <<r_activeIndex, r_autoTimer, r_queue, r_speaking, r_paused>>
    /\ UNCHANGED r_toggled
    /\ UNCHANGED notReel

\* The interval of startWordEstimation reaches the last word and clears itself
RTimerDone(r) ==
    /\ r_wordTimer[r]
    /\ r_wordTimer' = [r_wordTimer EXCEPT ![r] = FALSE]
    /\ UNCHANGED <<r_activeIndex, r_autoTimer, r_isPlaying, r_isPaused, r_queue,
                   r_speaking, r_paused, r_events>>
    /\ UNCHANGED r_toggled
    /\ UNCHANGED notReel

\* Reel.handlePlayPause of reel r: if (isPlaying) pause(); else if (isPaused)
\* resume(); else speak(chunk.text, chunk.words)
HandlePlayPause(r) ==
    IF r_isPlaying[r] THEN ReelPause(r)
    ELSE IF r_isPaused[r] THEN ReelResume(r)
    ELSE ReelSpeak(r)

\* The play/pause control of reel r is activated
RHandlePlayPause(r) ==
    /\ HandlePlayPause(r)
    /\ r_toggled' = [r_toggled EXCEPT ![r] =
                         [isPlaying |-> r_isPlaying[r], isPaused |-> r_isPaused[r],
                          called |-> IF r_isPlaying[r] THEN "pause"
                                     ELSE IF r_isPaused[r] THEN "resume"
                                     ELSE "speak"]]
    /\ UNCHANGED <<r_activeIndex, r_autoTimer>>
    /\ UNCHANGED notReel

\* Reel.handleToggleTTS of reel r
RHandleToggleTTS(r) ==
    /\ IF r_isPlaying[r] \/ r_isPaused[r] THEN ReelStop(r) ELSE ReelSpeak(r)
    /\ UNCHANGED <<r_activeIndex, r_autoTimer>>
    /\ UNCHANGED r_toggled
    /\ UNCHANGED notReel

ReelNext ==
    \/ \E newIndex \in Reels : RScroll(newIndex)
    \/ \E r \in Reels : RAutoStart(r)
    \/ ROnStart
    \/ ROnEnd
    \/ ROnCancelled
    \/ \E r \in Reels : RTimerDone(r)
    \/ \E r \in Reels : RHandlePlayPause(r)
    \/ \E r \in Reels : RHandleToggleTTS(r)

-----------------------------------------------------------------------------
(* The audio cache of useElevenLabsTTS (usePuterTTS.ts:352-353, 468-500,    *)
(* 653-667). A response is named by the call of generateSpeech whose fetch  *)
(* returned it.                                                             *)

\* The voices, the speeds (in tenths) and the texts of the calls
VoiceIds == {<<"a">>, <<"b">>}

Speeds == {10, 15}

CacheTexts == {<<"x">>, <<"5", ":", "x">>}

Digits == <<"0", "1", "2", "3", "4", "5", "6", "7", "8", "9">>

\* `${speed}` for a speed of s tenths: "1" for 1.0, "1.5" for 1.5
FormatSpeed(s) ==
    IF s % 10 = 0 THEN <<Digits[(s \div 10) + 1]>>
    ELSE <<Digits[(s \div 10) + 1], ".", Digits[(s % 10) + 1]>>

\* The key without the speed
getCacheKey_NoSpeed(voiceId, speed, text) == voiceId \o <<":">> \o text

\* `${voiceId}:${speed}:${text}`
getCacheKey(voiceId, speed, text) ==
    voiceId \o <<":">> \o FormatSpeed(speed) \o <<":">> \o text

\* const audioCache = new Map(); no call of generateSpeech made
CacheInit ==
    /\ k_cache = <<>>
    /\ k_reqs = {}
    /\ k_calls = 0
    /\ k_returned = [c \in 1..MaxGen |-> 0]
    /\ k_live = {}

\* generateSpeech(text) in a hook with the given voiceId and speed, up to its
\* return from the cache or to its fetch
GenerateSpeech(voiceId, speed, text) ==
    /\ k_calls < MaxGen
    /\ k_calls' = k_calls + 1
    /\ LET cacheKey == getCacheKey(voiceId, speed, text)
       IN  IF cacheKey \in DOMAIN k_cache
           THEN /\ k_returned' = [k_returned EXCEPT ![k_calls + 1] = k_cache[cacheKey]]
                /\ UNCHANGED k_reqs
           ELSE /\ k_reqs' = k_reqs \cup
                        {[id |-> k_calls + 1, voiceId |-> voiceId, speed |-> speed,
                          text |-> text]}
                /\ UNCHANGED k_returned
    /\ UNCHANGED <<k_cache, k_live>>
    /\ UNCHANGED notCache

\* The fetch of call q answers with response.ok: audioCache.set(cacheKey, data)
FetchOk(q) ==
    /\ q \in k_reqs
    /\ k_reqs' = k_reqs \ {q}
    /\ LET cacheKey == getCacheKey(q.voiceId, q.speed, q.text)
       IN  k_cache' = [k \in DOMAIN k_cache \cup {cacheKey} |->
                          IF k = cacheKey THEN q.id ELSE k_cache[k]]
    /\ k_returned' = [k_returned EXCEPT ![q.id] = q.id]
    /\ k_live' = k_live \cup {<<q.voiceId, q.speed, q.text>>}
    /\ UNCHANGED k_calls
    /\ UNCHANGED notCache

\* The fetch of call q rejects or answers without response.ok: the call throws
FetchFail(q) ==
    /\ q \in k_reqs
    /\ k_reqs' = k_reqs \ {q}
    /\ k_returned' = [k_returned EXCEPT ![q.id] = -1]
    /\ UNCHANGED <<k_cache, k_calls, k_live>>
    /\ UNCHANGED notCache

\* clearTTSCache()
ClearTTSCache ==
    /\ k_cache' = <<>>
    /\ k_live' = {}
    /\ UNCHANGED <<k_reqs, k_calls, k_returned>>
    /\ UNCHANGED notCache

\* removeTTSFromCache(voiceId, speed, text)
RemoveTTSFromCache(voiceId, speed, text) ==
    /\ LET key == getCacheKey(voiceId, speed, text)
       IN  k_cache' = [k \in DOMAIN k_cache \ {key} |-> k_cache[k]]
    /\ k_live' = k_live \ {<<voiceId, speed, text>>}
    /\ UNCHANGED <<k_reqs, k_calls, k_returned>>
    /\ UNCHANGED notCache

CacheNext ==
    \/ \E voiceId \in VoiceIds, speed \in Speeds, text \in CacheTexts :
           GenerateSpeech(voiceId, speed, text)
    \/ \E q \in k_reqs : FetchOk(q)
    \/ \E q \in k_reqs : FetchFail(q)
    \/ ClearTTSCache
    \/ \E voiceId \in VoiceIds, speed \in Speeds, text \in CacheTexts :
           RemoveTTSFromCache(voiceId, speed, text)

\* utterance.onboundary with event.name = 'word'
OnBoundary ==
    /\ ~o_fired
    /\ o_fired' = TRUE
    /\ LET i == BoundaryIndex(o_words, o_charIndex, 1, 0)
       IN  o_index' = IF i >= 0 THEN i ELSE o_index
    /\ UNCHANGED <<o_words, o_charIndex>>
    /\ UNCHANGED notBoundary

Init ==
    PuterInit /\ TTSInit /\ ChunkIdle /\ SplitIdle /\ ElevenIdle /\ ExtractIdle /\ ModuleIdle
    /\ BookInit
    /\ BoundaryIdle
    /\ ReelInit
    /\ CacheInit

\* Calls of chunkText about to be made, everything else at rest
InitModule ==
    PuterInit /\ TTSInit /\ ChunkIdle /\ SplitIdle /\ ElevenIdle /\ ExtractIdle /\ ModuleInit
    /\ BookInit
    /\ BoundaryIdle
    /\ ReelInit
    /\ CacheInit

SpecModule == InitModule /\ [][ModuleNext]_vars

SpecBook == Init /\ [][BookNext]_vars

SpecLibrary == Init /\ [][LibraryNext]_vars

SpecReel == Init /\ [][ReelNext]_vars

SpecCache == Init /\ [][CacheNext]_vars

\* A boundary event about to be delivered, everything else at rest
InitBoundary ==
    PuterInit /\ TTSInit /\ ChunkIdle /\ SplitIdle /\ ElevenIdle /\ ExtractIdle /\ ModuleIdle
    /\ BookInit
    /\ BoundaryInit
    /\ ReelInit
    /\ CacheInit

SpecBoundary == InitBoundary /\ [][OnBoundary]_vars

\* An alignment to reduce, everything else at rest
InitExtract ==
    PuterInit /\ TTSInit /\ ChunkIdle /\ SplitIdle /\ ElevenIdle /\ ExtractInit /\ ModuleIdle
    /\ BookInit
    /\ BoundaryIdle
    /\ ReelInit
    /\ CacheInit

SpecExtract == InitExtract /\ [][ExtractNext]_vars

\* A narration playing with useElevenLabsTTS, everything else at rest
InitEleven ==
    PuterInit /\ TTSInit /\ ChunkIdle /\ SplitIdle /\ ElevenInit /\ ExtractIdle /\ ModuleIdle
    /\ BookInit
    /\ BoundaryIdle
    /\ ReelInit
    /\ CacheInit

SpecEleven == InitEleven /\ [][ElevenNext]_vars

\* A call of splitIntoSentences about to run, everything else at rest
InitSplit ==
    PuterInit /\ TTSInit /\ ChunkIdle /\ SplitInit /\ ElevenIdle /\ ExtractIdle /\ ModuleIdle
    /\ BookInit
    /\ BoundaryIdle
    /\ ReelInit
    /\ CacheInit

SpecSplit == InitSplit /\ [][SplitNext]_vars

\* A call of chunkText about to run, the hooks in their initial state
InitChunk ==
    PuterInit /\ TTSInit /\ ChunkInit /\ SplitIdle /\ ElevenIdle /\ ExtractIdle /\ ModuleIdle
    /\ BookInit
    /\ BoundaryIdle
    /\ ReelInit
    /\ CacheInit

SpecChunk == InitChunk /\ [][ChunkNext]_vars


SpecPuter == Init /\ [][PuterNext]_vars

SpecTTS == Init /\ [][TTSNext]_vars

\* useTTS with the clock running and every live interval firing again and again
FairSpecTTS ==
    /\ Init
    /\ [][TTSNext]_vars
    /\ WF_vars(TClock)
    /\ WF_vars(\E t \in t_timers : TTick(t))

-----------------------------------------------------------------------------
(* usePuterTTS: the sessions and the properties stated of them             *)

\* Call c is stale: a later speak() superseded it, or stop() was called
\* after it.
PStale(c) == c < p_calls \/ c <= p_stoppedAt

PPlayingAudios == {a \in PCalls : p_audio[a].status = "playing"}

\* C1: the late result of a stopped or superseded speak() is discarded: the
\* step that settles its txt2speech promise installs no audio element, starts
\* no playback and changes none of isPlaying, isLoading, currentWordIndex,
\* error.
C1_StaleResultDiscarded ==
    [][\A c \in PCalls :
          (c \in p_pending /\ c \notin p_pending' /\ PStale(c))
              => UNCHANGED <<p_audioRef, p_audio, p_mediaQ, p_isPlaying, p_isLoading,
                             p_currentWordIndex, p_error>>]_vars

\* C2: at most one narration output is playing at any time.
C2_SingleOutput == Cardinality(PPlayingAudios) <= 1

\* A step that runs a callback of audio element a: a queued play or pause
\* event is dispatched, loadedmetadata fires, or playback ends or fails.
PCallbackOf(a) ==
    \/ p_mediaQ # <<>> /\ p_mediaQ' = Tail(p_mediaQ) /\ Head(p_mediaQ)[1] = a
    \/ ~p_audio[a].meta /\ p_audio'[a].meta /\ p_audio[a].status # "new"
    \/ p_audio[a].status = "playing" /\ p_audio'[a].status \in {"ended", "failed"}

\* C3: a callback of an audio element that is no longer the session's
\* (audioRef.current is another element, or null after stop()) changes none
\* of isPlaying, isPaused, currentWordIndex, clears no word timer and does
\* not invoke onComplete.
C3_StaleCallbackIgnored ==
    [][\A a \in PCalls :
          (PCallbackOf(a) /\ a # p_audioRef)
              => UNCHANGED <<p_isPlaying, p_isPaused, p_currentWordIndex, p_intervalRef,
                             p_timers, p_completed>>]_vars

\* stop() has been called and no speak() since
PStopped == p_stoppedAt = p_calls

PIdle == ~p_isPlaying /\ ~p_isPaused /\ ~p_isLoading /\ p_currentWordIndex = -1

\* C8: once stop() has been called and until the next speak(), the session is
\* Idle: isPlaying, isPaused and isLoading are false and currentWordIndex
\* is -1.
C8_StopIsIdle == PStopped => PIdle

\* C9: onComplete fires at most once per speak(), only for a run that was
\* neither stopped nor superseded, and leaves the session Completed with
\* currentWordIndex = -1.
C9_CompleteOncePerRun ==
    [][\A c \in PCalls :
          p_completed'[c] # p_completed[c]
              => /\ ~PStale(c)
                 /\ p_completed[c] = 0
                 /\ ~p_isPlaying' /\ ~p_isPaused' /\ p_currentWordIndex' = -1]_vars

\* C10: after a failure of the narration collaborator and until the next
\* speak() (error is non-null exactly then), isPlaying, isPaused and
\* isLoading are false, no word timer runs and nothing plays or is being
\* prepared.
C10_ErroredIsQuiescent ==
    p_error # "null"
        => /\ ~p_isPlaying /\ ~p_isPaused /\ ~p_isLoading
           /\ p_timers = {}
           /\ PPlayingAudios = {}

-----------------------------------------------------------------------------
(* useTTS: the properties stated of the word index                         *)

\* A step inside one uninterrupted run: the same utterance is being spoken,
\* playing and not paused, before and after.
TRunStep ==
    /\ s_speaking # 0 /\ s_speaking' = s_speaking
    /\ t_isPlaying /\ ~t_isPaused
    /\ t_isPlaying' /\ ~t_isPaused'

\* C4: within one uninterrupted run the values written to currentWordIndex
\* never decrease and lie in [0, words.length-1], whether the estimation
\* timer or a boundary event writes them.
C4_IndexMonotoneInRun ==
    [][(TRunStep /\ t_currentWordIndex' # t_currentWordIndex)
          => /\ t_currentWordIndex' >= t_currentWordIndex
             /\ t_currentWordIndex' \in 0..(Len(t_wordsRef) - 1)]_vars

\* C5: in a run resumed from a pause at index i, no index below i is shown.
C5_ResumeNotBelowFrozen ==
    (s_speaking # 0 /\ t_isPlaying /\ ~t_isPaused /\ t_frozen >= 0)
        => t_currentWordIndex >= t_frozen

-----------------------------------------------------------------------------
(* chunkText: the properties stated of its result                          *)

\* minWords <= targetWords <= maxWords, all positive
ValidPolicy(opts) ==
    /\ opts.minWords >= 1
    /\ opts.minWords <= opts.targetWords
    /\ opts.targetWords <= opts.maxWords

\* The sentences of all paragraphs, in order
RECURSIVE SentencesFrom(_, _)
SentencesFrom(paragraphs, i) ==
    IF i > Len(paragraphs) THEN <<>>
    ELSE splitIntoSentences(Trim(paragraphs[i])) \o SentencesFrom(paragraphs, i + 1)

ChunkTexts == [i \in 1..Len(c_chunks) |-> c_chunks[i].text]

\* C6: under a valid policy, the texts of the chunks chunkText returned,
\* joined with single spaces in id order, equal the sentences of all
\* paragraphs joined with single spaces: nothing lost, repeated or reordered.
C6_RejoinReconstructs ==
    (c_done /\ ValidPolicy(c_opts))
        => /\ \A i \in 1..Len(c_chunks) : c_chunks[i].id = i - 1
           /\ JoinSpace(ChunkTexts)
                  = JoinSpace(SentencesFrom(Paragraphs(c_text, c_opts), 1))

\* C6 witness: a valid policy cut a text of several sentences in two
\* paragraphs into more than one chunk, one of them of several sentences.
C6_Witness ==
    /\ c_done /\ ValidPolicy(c_opts) /\ c_opts.preserveParagraphs
    /\ Len(Paragraphs(c_text, c_opts)) = 2
    /\ Len(c_chunks) >= 2
    /\ \E i \in 1..Len(c_groups) : Len(c_groups[i]) >= 2

\* C7: under a valid policy every chunk has at most maxWords words, unless
\* it is made of exactly one sentence that alone has more than maxWords.
C7_ChunkWithinMax ==
    (c_done /\ ValidPolicy(c_opts))
        => \A i \in 1..Len(c_chunks) :
              \/ Len(c_chunks[i].words) <= c_opts.maxWords
              \/ /\ Len(c_groups[i]) = 1
                 /\ countWords(c_groups[i][1]) > c_opts.maxWords

\* C7 witness: a valid policy gave both a chunk of several sentences that
\* reaches maxWords exactly and a chunk of one sentence longer than maxWords.
C7_Witness ==
    /\ c_done /\ ValidPolicy(c_opts)
    /\ \E i \in 1..Len(c_chunks) :
          Len(c_groups[i]) >= 2 /\ Len(c_chunks[i].words) = c_opts.maxWords
    /\ \E i \in 1..Len(c_chunks) :
          Len(c_groups[i]) = 1 /\ Len(c_chunks[i].words) > c_opts.maxWords

\* C11: chunkText fails at once on an invalid policy (a value that is not
\* positive, or minWords <= targetWords <= maxWords broken): it returns
\* chunks only for a valid policy.
C11_InvalidPolicyRejected == c_done => ValidPolicy(c_opts)

-----------------------------------------------------------------------------
(* usePuterTTS: the session state machine                                  *)

\* The state of the session as the hook's flags show it; Idle and Completed
\* show the same flags and are both "Rest".
PState ==
    IF p_isLoading THEN "Loading"
    ELSE IF p_error # "null" THEN "Errored"
    ELSE IF p_isPaused THEN "Paused"
    ELSE IF p_isPlaying THEN "Playing"
    ELSE "Rest"

\* The edges of the machine other than those of stop() and speak()
PEdges ==
    { <<"Rest", "Loading">>, <<"Rest", "Playing">>, <<"Loading", "Playing">>,
      <<"Playing", "Paused">>, <<"Paused", "Playing">>, <<"Playing", "Rest">>,
      <<"Loading", "Errored">>, <<"Playing", "Errored">> }

\* C12: every change of the session state follows an edge of the machine
\* (stop() leads to Idle from any state, speak() leads to Loading or to
\* Errored, every other step follows Idle -> Loading | Playing, Loading ->
\* Playing, Playing <-> Paused, Playing -> Completed, Loading | Playing ->
\* Errored), isPlaying never holds together with isLoading, and no Playing or
\* Paused state is without an audio element attached.
C12_MachineEdges ==
    [][/\ PStop => PState' = "Rest"
       /\ (\E n \in 1..MaxWords : PSpeak(n)) => PState' \in {"Loading", "Errored"}
       /\ (~PStop /\ ~(\E n \in 1..MaxWords : PSpeak(n)) /\ PState' # PState)
              => <<PState, PState'>> \in PEdges
       /\ ~(p_isPlaying' /\ p_isLoading')
       /\ (p_isPlaying' \/ p_isPaused') => p_audioRef' # 0]_vars

\* C13: pause() in a state other than Playing and resume() in a state other
\* than Paused change none of isPlaying, isPaused, currentWordIndex, the word
\* timer and the audio element.
C13_PauseResumeNoOp ==
    [][((PPause /\ PState # "Playing") \/ (PResume /\ PState # "Paused"))
          => UNCHANGED <<p_isPlaying, p_isPaused, p_currentWordIndex, p_timers,
                         p_intervalRef, p_audio, p_mediaQ>>]_vars

-----------------------------------------------------------------------------
(* chunkText: ids and positions                                            *)

\* C14: under a valid policy the chunks have ids 0, 1, 2, ... in order, each
\* has startPosition < endPosition, and the endPosition of each is strictly
\* below the startPosition of the next.
C14_IdsAndRangesAscend ==
    (c_done /\ ValidPolicy(c_opts))
        => /\ \A i \in 1..Len(c_chunks) :
                 /\ c_chunks[i].id = i - 1
                 /\ c_chunks[i].startPosition < c_chunks[i].endPosition
           /\ \A i \in 1..(Len(c_chunks) - 1) :
                 c_chunks[i].endPosition < c_chunks[i + 1].startPosition

\* C14 witness: a valid policy gave three chunks or more.
C14_Witness == c_done /\ ValidPolicy(c_opts) /\ Len(c_chunks) >= 3

\* All sentences of the text joined by single spaces
Reconstructed == JoinSpace(SentencesFrom(Paragraphs(c_text, c_opts), 1))

-----------------------------------------------------------------------------
(* splitIntoSentences: the properties stated of its result                 *)

IsLetter(c) == c \in UpperSet \/ c \in LowerSet

\* The sentence ends with one of the abbreviations and its period, the
\* abbreviation standing at the start or after a character that is no letter
EndsWithAbbreviation(s) ==
    \E k \in 1..Len(abbreviations) :
        LET abbr == abbreviations[k]
            from == Len(s) - Len(abbr)
        IN  /\ from >= 1
            /\ s[Len(s)] = "."
            /\ SubSeq(s, from, Len(s) - 1) = abbr
            /\ from = 1 \/ ~IsLetter(s[from - 1])

\* "Mr. Smith ran." and "He was fast."
ExampleSentences == <<SubSeq(ExampleText, 1, 14), SubSeq(ExampleText, 16, 27)>>

\* C16: the period that follows an abbreviation is never taken as a sentence
\* boundary: no returned sentence but the last ends with an abbreviation and
\* its period, and "Mr. Smith ran. He was fast." gives the two sentences
\* "Mr. Smith ran." and "He was fast.".
C16_AbbreviationNotBoundary ==
    ss_done
        => /\ \A i \in 1..(Len(ss_sentences) - 1) : ~EndsWithAbbreviation(ss_sentences[i])
           /\ ss_text = ExampleText => ss_sentences = ExampleSentences

-----------------------------------------------------------------------------
(* chunkText: paragraph boundaries                                         *)

\* The number of sentences in the first j paragraphs
RECURSIVE SentencesUpTo(_, _)
SentencesUpTo(paragraphs, j) ==
    IF j = 0 THEN 0
    ELSE SentencesUpTo(paragraphs, j - 1) + Len(splitIntoSentences(Trim(paragraphs[j])))

\* The number of sentences in the first i chunks
RECURSIVE GroupedUpTo(_, _)
GroupedUpTo(groups, i) ==
    IF i = 0 THEN 0 ELSE GroupedUpTo(groups, i - 1) + Len(groups[i])

\* The words of the first n sentences of a chunk
WordsOfFirst(group, n) == countWords(JoinSpace(SubSeq(group, 1, n)))

\* The number of the chunk's leading sentences that lie before sentence
\* number b of the text, when the chunk has sentences on both sides of it
\* (0 otherwise)
LeadingBefore(groups, i, b) ==
    LET before == GroupedUpTo(groups, i - 1)
    IN  IF before < b /\ b < before + Len(groups[i]) THEN b - before ELSE 0

\* C17: with preserveParagraphs, a chunk that holds minWords words or more
\* at a paragraph boundary is closed there even below targetWords, so a
\* chunk with sentences on both sides of a boundary held fewer than minWords
\* at it.
C17_ParagraphBoundaryCloses ==
    (c_done /\ c_opts.preserveParagraphs)
        => LET paragraphs == Paragraphs(c_text, c_opts)
               ends == [j \in 1..Len(paragraphs) |-> SentencesUpTo(paragraphs, j)]
           IN  \A i \in 1..Len(c_chunks) :
                   \A j \in 1..(Len(paragraphs) - 1) :
                       LET n == LeadingBefore(c_groups, i, ends[j])
                       IN  n > 0 => WordsOfFirst(c_groups[i], n) < c_opts.minWords

\* C17 witness: under a valid policy two paragraphs that together stay below
\* targetWords and within maxWords, the first with minWords words or more,
\* gave two chunks, not one: the first was closed at the boundary.
C17_Witness ==
    /\ c_done /\ c_opts.preserveParagraphs /\ ValidPolicy(c_opts)
    /\ Len(Paragraphs(c_text, c_opts)) = 2
    /\ Len(c_chunks) = 2
    /\ Len(c_chunks[1].words) >= c_opts.minWords
    /\ Len(c_chunks[1].words) + Len(c_chunks[2].words) < c_opts.targetWords
    /\ SentencesUpTo(Paragraphs(c_text, c_opts), 1) = Len(c_groups[1])


\* ---------------------------------------------------------------------
\* C18: for a well-formed alignment table, a playback time inside the silent
\* gap between the end of word k and the start of word k+1 resolves to k+1,
\* and a time inside [start, end) of word k resolves to k.
InGap(k) ==
    /\ k + 1 < Len(e_timings)
    /\ e_resolvedAt >= e_timings[k + 1].end
    /\ e_resolvedAt < e_timings[k + 2].start

InEntry(k) ==
    /\ e_resolvedAt >= e_timings[k + 1].start
    /\ e_resolvedAt < e_timings[k + 1].end

C18_ResolverGapAndEntry ==
    e_resolvedAt >= 0 =>
        \A k \in 0..(Len(e_timings) - 1) :
            /\ InGap(k) => e_newIndex = k + 1
            /\ InEntry(k) => e_newIndex = k

C18_Witness ==
    /\ e_resolvedAt >= 0
    /\ Len(e_timings) = MaxEntries
    /\ InGap(1)
    /\ e_newIndex = 2
    /\ e_currentWordIndex = 2


\* ---------------------------------------------------------------------
\* C19: extractWordTimings yields exactly one entry per maximal run of
\* characters other than space, newline and tab, in order; the entry's word is
\* the run, its start the rounded start time of the run's first character and
\* its end the rounded end time of the run's last character.  For the characters
\* H,i,space,t,h,e,r,e it yields exactly "Hi" and "there".
Runs ==
    {r \in (1..Len(x_characters)) \X (1..Len(x_characters)) :
        /\ r[1] <= r[2]
        /\ \A i \in r[1]..r[2] : x_characters[i] \notin {" ", "\n", "\t"}
        /\ r[1] = 1 \/ x_characters[r[1] - 1] \in {" ", "\n", "\t"}
        /\ r[2] = Len(x_characters) \/ x_characters[r[2] + 1] \in {" ", "\n", "\t"}}

RunNo(k) == CHOOSE r \in Runs : Cardinality({q \in Runs : q[1] < r[1]}) = k - 1

C22_IndexEmittedOnce == \A i \in 0..(MaxEntries - 1) : e_emitted[i] <= 1


\* ---------------------------------------------------------------------
\* C23: from the moment pause() is accepted in Playing until resume() or
\* stop(), currentWordIndex does not change (no word-index event), even when a
\* timer tick scheduled before the pause fires afterwards.
\* pause() was accepted: the attached audio element is paused by it
PHeld ==
    /\ p_audioRef # 0
    /\ p_audio[p_audioRef].status = "paused"
    /\ p_isPlaying
    /\ p_error = "null"

C23_PauseFreezesIndex ==
    [][(PHeld /\ PHeld') => p_currentWordIndex' = p_currentWordIndex]_vars


\* ---------------------------------------------------------------------
\* C24: after any sequence of scrolls, once every pending updateProgress call
\* has settled, the lastChunkIndex saved in the database and held by the
\* store's currentBook is the index of the reel that became active last, and
\* it lies in [0, chunks.length - 1].
BSettled == \A o \in Ops : b_ops[o].pc = "done"

OnlyScrolls == \A b \in Books : b_db[b].settings = "default" /\ b_books[b].settings = "default"

C24_ProgressSaved ==
    (BSettled /\ OnlyScrolls) =>
        /\ b_db[b_currentBook.id].lastChunkIndex = b_activeIndex
        /\ b_currentBook.lastChunkIndex = b_activeIndex
        /\ b_activeIndex \in 0..(Len(b_currentBook.chunks) - 1)


\* ---------------------------------------------------------------------
\* C25: updateProgress, updateReadingProgress and updateBookSettings leave the
\* text and the chunks of every book as they were ingested, in the database and
\* in the store; a step changes only lastChunkIndex, lastReadAt or settings,
\* and only of the book a call in flight addresses.
SameButProgress(old, new) ==
    new = [old EXCEPT !.lastChunkIndex = new.lastChunkIndex,
                      !.lastReadAt = new.lastReadAt,
                      !.settings = new.settings]

Addressed(b) == \E o \in Ops : b_ops[o].pc # "done" /\ b_ops[o].book = b

C25_ChunksImmutable ==
    [][/\ \A b \in Books :
             /\ SameButProgress(b_db[b], b_db'[b])
             /\ SameButProgress(b_books[b], b_books'[b])
             /\ (b_db'[b] # b_db[b] \/ b_books'[b] # b_books[b]) => Addressed(b)
       /\ SameButProgress(b_currentBook, b_currentBook')
       /\ b_currentBook' # b_currentBook => Addressed(b_currentBook.id)]_vars

C25_Witness ==
    /\ BSettled
    /\ b_db[1].lastChunkIndex = 1
    /\ b_db[1].settings = "dark"
    /\ b_books[1].lastChunkIndex = 1
    /\ b_currentBook.settings = "dark"
    /\ b_db[2] = SavedBook(2)


\* ---------------------------------------------------------------------
\* C26: every chunk but the last was closed by one of three triggers: (1) the
\* next sentence would have taken it past maxWords, (2) it has targetWords
\* words or more, (3) with preserveParagraphs it ends at a paragraph boundary
\* with minWords words or more.  (1) is tested before a sentence is appended
\* (no appended sentence takes a chunk past maxWords), (2) right after (no
\* chunk goes on after reaching targetWords).
EndsAtBoundary(paragraphs, i) ==
    \E j \in 1..Len(paragraphs) : SentencesUpTo(paragraphs, j) = GroupedUpTo(c_groups, i)

C26_ClosedByTrigger ==
    c_done =>
        LET paragraphs == Paragraphs(c_text, c_opts)
        IN  /\ \A i \in 1..(Len(c_chunks) - 1) :
                  LET count == WordsOfFirst(c_groups[i], Len(c_groups[i]))
                  IN  \/ /\ Len(c_groups[i + 1]) > 0
                         /\ count + countWords(c_groups[i + 1][1]) > c_opts.maxWords
                      \/ count >= c_opts.targetWords
                      \/ /\ c_opts.preserveParagraphs
                         /\ EndsAtBoundary(paragraphs, i)
                         /\ count >= c_opts.minWords
            /\ \A i \in 1..Len(c_chunks) : \A n \in 1..(Len(c_groups[i]) - 1) :
                  /\ WordsOfFirst(c_groups[i], n) < c_opts.targetWords
                  /\ WordsOfFirst(c_groups[i], n + 1) <= c_opts.maxWords

\* C26 witness: in one text a chunk below targetWords was closed inside a
\* paragraph by trigger (1) and another at a paragraph boundary by trigger (3)
\* alone
C26_Witness ==
    /\ c_done /\ ValidPolicy(c_opts) /\ c_opts.preserveParagraphs
    /\ Len(c_chunks) >= 3
    /\ \E i \in 1..(Len(c_chunks) - 1) :
          /\ Len(c_chunks[i].words) < c_opts.targetWords
          /\ ~EndsAtBoundary(Paragraphs(c_text, c_opts), i)
    /\ \E i \in 1..(Len(c_chunks) - 1) :
          /\ Len(c_chunks[i].words) < c_opts.targetWords
          /\ EndsAtBoundary(Paragraphs(c_text, c_opts), i)
          /\ Len(c_chunks[i].words) + countWords(c_groups[i + 1][1]) <= c_opts.maxWords


\* ---------------------------------------------------------------------
\* C27: a boundary event whose offset is the start of word k in the words
\* joined by one separator each sets the index to k, for every k; an event at
\* any other offset sets an index in [0, words.length - 1] or leaves the index
\* as it was.
C27_BoundaryMapping ==
    [][/\ \A k \in 0..(Len(o_words) - 1) :
             o_charIndex = WordOffset(o_words, k) => o_index' = k
       /\ o_index' \in 0..(Len(o_words) - 1) \/ o_index' = o_index]_vars

C27_Witness ==
    /\ o_fired
    /\ Len(o_words) = MaxTWords
    /\ o_charIndex = WordOffset(o_words, MaxTWords - 1)
    /\ o_charIndex > MaxTWords
    /\ o_index = MaxTWords - 1


TRunning == t_isPlaying /\ ~t_isPaused /\ s_speaking # 0 /\ t_frozen = -1

C29_TimerReachesLastWord ==
    [](TRunning =>
          <>(~TRunning \/ t_currentWordIndex = Len(t_words[s_speaking]) - 1))



\* ---------------------------------------------------------------------
\* C30: after resume() from Paused the word index goes on to the end of the
\* chunk: under fair timer ticks, a resumed run (frozen index i >= 0) that is
\* not paused or stopped again reaches words.length - 1 unless the run ends
\* first; it neither stays at i nor stops short of the last word.
TResumed == t_isPlaying /\ ~t_isPaused /\ s_speaking # 0 /\ t_frozen >= 0

C30_ResumeReachesLastWord ==
    [](TResumed =>
          <>(~TResumed \/ t_currentWordIndex = Len(t_words[s_speaking]) - 1))



-----------------------------------------------------------------------------
(* splitIntoSentences: masking and unmasking                                 *)

\* sub occurs in s as a run of consecutive characters
IsSubstringOf(sub, s) ==
    \E i \in 1..(Len(s) - Len(sub) + 1) : SubSeq(s, i, i + Len(sub) - 1) = sub

\* C31: masking is reversible: every sentence returned by splitIntoSentences
\* is a verbatim substring of the input text, no character added, removed or
\* changed in case, also for lower-case variants of the abbreviations and
\* for words that resemble them.
C31_SentencesVerbatim ==
    ss_done => \A k \in 1..Len(ss_sentences) : IsSubstringOf(ss_sentences[k], ss_text)



-----------------------------------------------------------------------------
(* splitIntoSentences: where the boundaries fall                             *)

Punctuation == {".", "!", "?"}

\* The positions right after a maximal run of '.', '!' or '?' in m
RunEnds(m) ==
    {e \in 2..(Len(m) + 1) :
        /\ m[e - 1] \in Punctuation
        /\ e > Len(m) \/ m[e] \notin Punctuation}

\* From position e on: whitespace and then an uppercase letter, or nothing
\* but (possibly no) whitespace up to the end of the input
FollowedByStart(m, e) ==
    \E j \in e..(Len(m) + 1) :
        /\ \A q \in e..(j - 1) : IsSpace(m[q])
        /\ \/ j > e /\ j <= Len(m) /\ IsUpper(m[j])
           \/ j = Len(m) + 1

BoundariesOf(m) == {e \in RunEnds(m) : FollowedByStart(m, e)}

\* The trimmed pieces of m between consecutive boundaries of b, from `from`
\* on, and the trimmed remainder after the last one when it is not empty
RECURSIVE PiecesFrom(_, _, _)
PiecesFrom(m, from, b) ==
    IF b = {}
    THEN LET remainder == Trim(SubSeq(m, from, Len(m)))
         IN  IF remainder # <<>> THEN <<remainder>> ELSE <<>>
    ELSE LET e == CHOOSE x \in b : \A y \in b : x <= y
         IN  <<Trim(SubSeq(m, from, e - 1))>> \o PiecesFrom(m, e, b \ {e})

-----------------------------------------------------------------------------
(* chunkText: the words of a chunk                                           *)

\* The maximal runs of characters of s that are no whitespace, as pairs
\* <<first, last>>
WordRuns(s) ==
    {r \in (1..Len(s)) \X (1..Len(s)) :
        /\ r[1] <= r[2]
        /\ \A i \in r[1]..r[2] : ~IsSpace(s[i])
        /\ r[1] = 1 \/ IsSpace(s[r[1] - 1])
        /\ r[2] = Len(s) \/ IsSpace(s[r[2] + 1])}

WordRunNo(s, k) ==
    CHOOSE r \in WordRuns(s) : Cardinality({q \in WordRuns(s) : q[1] < r[1]}) = k - 1

\* The sum of countWords over the sentences a chunk was made of: the count
\* the loop compared with maxWords, targetWords and minWords
RECURSIVE CountedWords(_)
CountedWords(sentences) ==
    IF sentences = <<>> THEN 0
    ELSE countWords(Head(sentences)) + CountedWords(Tail(sentences))

\* Exactly one whitespace character stands between two consecutive words of
\* s, and none before the first or after the last
SingleSeparators(s) ==
    /\ s # <<>> => ~IsSpace(s[1]) /\ ~IsSpace(s[Len(s)])
    /\ \A i \in 1..(Len(s) - 1) : ~(IsSpace(s[i]) /\ IsSpace(s[i + 1]))

\* C33: for every chunk returned by chunkText, words is exactly the ordered
\* sequence of the maximal non-whitespace runs of text, its length is the
\* word count the loop used for its decisions, and text is the words joined
\* by single separators.
C33_WordsOfChunk ==
    (c_done /\ ValidPolicy(c_opts))
        => \A i \in 1..Len(c_chunks) :
              LET text == c_chunks[i].text
                  words == c_chunks[i].words
              IN  /\ Len(words) = Cardinality(WordRuns(text))
                  /\ \A k \in 1..Len(words) :
                        words[k] = SubSeq(text, WordRunNo(text, k)[1], WordRunNo(text, k)[2])
                  /\ Len(words) = CountedWords(c_groups[i])
                  /\ SingleSeparators(text)



-----------------------------------------------------------------------------
(* The reels of a container                                                  *)

\* C35: a reel narrates only while it is the active reel: no inactive reel
\* has a pending auto-start timer, a playing utterance or a running word
\* timer, and at most one reel of the container is narrating.
C35_OnlyActiveNarrates ==
    /\ \A r \in Reels :
          r # r_activeIndex
              => /\ ~r_autoTimer[r]
                 /\ ~r_isPlaying[r]
                 /\ r_speaking # r
                 /\ ~r_wordTimer[r]
    /\ Cardinality({r \in Reels : r_isPlaying[r]}) <= 1

\* C36: the play/pause control toggles Playing <-> Paused: activated while
\* the reel's session is Playing it calls pause(); activated while the session
\* is Paused (isPaused set by pause()) it calls resume(), not pause() again
\* and not speak().
C36_ToggleResumes ==
    \A r \in Reels :
        /\ (r_toggled[r].called # "none" /\ r_toggled[r].isPaused)
               => r_toggled[r].called = "resume"
        /\ (r_toggled[r].isPlaying /\ ~r_toggled[r].isPaused)
               => r_toggled[r].called = "pause"


-----------------------------------------------------------------------------
(* The library: deletion                                                     *)

\* deleteBook(id) has completed
Deleted(id) ==
    \E o \in Ops :
        b_ops[o].kind = "delete" /\ b_ops[o].book = id /\ b_ops[o].pc = "deleted"

\* C38: a deleted book stays deleted: once deleteBook(id) has completed, the
\* book is neither in the database nor in the store's books, whatever call of
\* updateProgress or updateBookSettings for it completes later, and
\* currentBook is not that book.
C38_DeletedStaysDeleted ==
    \A id \in Books :
        Deleted(id)
            => /\ b_db[id] = NoBook
               /\ b_books[id] = NoBook
               /\ b_currentBook.id # id



\* ---------------------------------------------------------------------
\* C37: at most one word timer is scheduled per hook instance at any time,
\* and none while the session is Idle, Paused, Completed or Errored: every
\* path that starts a timer first cancels the previous one, and stop(), pause,
\* completion and error cancel it.
C37_OneTimerOnlyWhilePlaying ==
    /\ Cardinality(p_timers) <= 1
    /\ PState \in {"Rest", "Paused", "Errored"} => p_timers = {}



-----------------------------------------------------------------------------
(* The audio cache                                                           *)

\* C39: after generateSpeech has succeeded for (voiceId, speed, text), every
\* later generateSpeech with the same three returns the cached response
\* without a network request, until clearTTSCache or removeTTSFromCache of
\* these three; a failed request stores nothing; removeTTSFromCache removes
\* only its own key.
C39_CacheServes ==
    [][/\ \A voiceId \in VoiceIds, speed \in Speeds, text \in CacheTexts :
             /\ (GenerateSpeech(voiceId, speed, text) /\ <<voiceId, speed, text>> \in k_live)
                    => /\ k_reqs' = k_reqs
                       /\ k_returned'[k_calls'] = k_cache[getCacheKey(voiceId, speed, text)]
             /\ RemoveTTSFromCache(voiceId, speed, text)
                    => \A tr \in k_live \ {<<voiceId, speed, text>>} :
                          /\ getCacheKey(tr[1], tr[2], tr[3]) \in DOMAIN k_cache'
                          /\ k_cache'[getCacheKey(tr[1], tr[2], tr[3])]
                                 = k_cache[getCacheKey(tr[1], tr[2], tr[3])]
       /\ \A q \in k_reqs : FetchFail(q) => k_cache' = k_cache
       /\ \A tr \in k_live' : getCacheKey(tr[1], tr[2], tr[3]) \in DOMAIN k_cache']_vars

\* A call was served from the cache with the response another call fetched,
\* and another call failed
C39_Witness ==
    /\ \E c \in 1..MaxGen : k_returned[c] \in (1..MaxGen) \ {c}
    /\ \E c \in 1..MaxGen : k_returned[c] = -1
    /\ k_reqs = {}



====
